---- MODULE Spec2Model ----
(***************************************************************************)
(* Status-and-Activity-List: the usage counter animation of the page       *)
(* (src/app/page.tsx, fetchAndUpdateUsage and animate), the flow decay     *)
(* model (calculateFlowPercent), the load meter (calculateWeight,          *)
(* calculateEffectiveLoad, calculateMood), the route handlers of           *)
(* /api/priorities, /api/flowkeeper, /api/tags and /api/auth, and the edit *)
(* session of the page (handleAuth .. exitEditMode, addTag, deleteTag),    *)
(* and the usage route with its upstream fetch helpers.                    *)
(* Each part has its own specification: SpecCounter, SpecFlow, SpecKeeper, *)
(* SpecMeter, SpecApi, SpecBoard, SpecSession, SpecRefresh, SpecFetch,     *)
(* SpecRace, SpecPacing, SpecLogin.                                        *)
(*                                                                         *)
(* Numbers.  The animated values are JavaScript doubles.  They are kept    *)
(* here in fixed point: a name ending in Ref that holds a fractional value *)
(* (displayedTokensRef, displayedLinesRef, lineTokenAccumRef, the start    *)
(* positions, tokensPerLineRatioRef) is an integer count of 1/Q units, and *)
(* every division rounds down to that resolution.  Targets, floors, the    *)
(* values in localStorage and the values given to React are whole numbers, *)
(* as in the code (they come from integers or from Math.floor).            *)
(* Speeds are kept in thousandths of a token per millisecond.              *)
(* Math.random() is a value r/1000 with r drawn from RandomDraws.          *)
(* Usage totals are drawn from totals of tens of millions of tokens: the   *)
(* integers of the model checker are 32 bits wide, and the client reads    *)
(* the total only through the expressions modelled below.                  *)
(***************************************************************************)
EXTENDS Integers, Sequences, FiniteSets, TLC

VARIABLES
    \* ---- browser ----
    localStorage,           \* [tokens, lines]: cursor_tokens_highest / cursor_lines_highest
    clock,                  \* performance.now() of the latest frame, ms since page load
    \* ---- React state ----
    cursorUsage,            \* last usable poll response, or NoUsage
    displayedTokens,        \* value rendered for tokens
    displayedLines,         \* value rendered for lines
    \* ---- refs of the animator ----
    displayedTokensRef,     \* raw animated tokens (1/Q)
    displayedLinesRef,      \* raw animated lines (1/Q)
    targetTokensRef,
    targetLinesRef,
    tokenStartRef,          \* (1/Q)
    linesStartRef,          \* (1/Q)
    floorTokensRef,
    floorLinesRef,
    lineSeqIndexRef,
    lineTokenAccumRef,      \* (1/Q)
    wasInCatchUpRef,
    lastFrameTimeRef,
    lastSaveTimeRef,
    tokensPerLineRatioRef,  \* (1/Q)
    isPausedRef,
    pauseEndRef,
    nextPauseAtRef,
    speedMultiplierRef,     \* thousandths
    speedChangeAtRef,
    \* ---- history of the run ----
    polls,                  \* number of polls issued in the run (bounded)
    reloads,                \* number of page reloads in the run (bounded)
    loadedFloor,            \* localStorage as it was when the page was loaded
    peakTokens,             \* highest upstream token total any poll has returned
    lastWriteAt,            \* clock of the latest frame of this page load that wrote localStorage, or -1
    prevWriteAt,            \* clock of the frame that wrote localStorage before that one, or -1
    failedPollAt,           \* displayedTokensRef when the latest poll failed, -1 if it did not fail
    \* ---- flow decay model ----
    flowCompletions,        \* sequence of [difficulty, completedAt]
    flowNow,                \* Date.now(), in minutes
    flowPercent,            \* value of the flow meter, in 1/FLOW_SCALE percent
    \* ---- server: environment and stored documents ----
    EDIT_PASSWORD,          \* process.env.EDIT_PASSWORD, "" when it is not configured
    prioritiesStore,        \* priorities.json: sequence of Priority
    tagsStore,              \* what readTags returns: tags.json, DEFAULT_TAGS without it
    flowTasksStore,         \* flowkeeper.json: sequence of FlowTask
    completionsStore,       \* flow-completions.json: sequence of FlowCompletion
    tagRequests,            \* /api/tags handlers between their read and their write
    response,               \* the latest HTTP response: [route, method, status, body]
    \* ---- React state of the board ----
    priorities,
    draftPriorities,        \* [editing, list]; NoDraft is the value null
    tags,
    flowTasks,
    draftFlowTasks,         \* [editing, list]; NoDraft is the value null
    password,
    isAuthenticated,
    completingIdsRef,       \* the completions in flight: [id, authHeader] of each request
    authCalls,              \* the calls of handleAuth waiting at an await
    \* ---- /api/cursor-usage (route.ts) ----
    CURSOR_API_KEY,         \* process.env.CURSOR_API_KEY, "" when unset
    refreshInProgress,
    memoryCache,            \* what readUsage returns: the stored UsageData or NoStored
    refreshCalls,           \* the calls of refreshFromCursorAPI that passed its guard
    usageGets,              \* the GET handlers waiting at an await
    helperCalls,            \* the running call of each upstream fetch helper
    \* ---- /api/flowkeeper handlers at an await ----
    keeperCalls,
    \* ---- history of the run ----
    boardSteps,             \* requests and edits made in the run (bounded)
    completedIds,           \* the ids completeFlowTask appended a completion for, in order
    prunedAway              \* the completions the latest GET /api/flowkeeper left out

counterVars == <<localStorage, clock, cursorUsage, displayedTokens, displayedLines,
                 displayedTokensRef, displayedLinesRef, targetTokensRef, targetLinesRef,
                 tokenStartRef, linesStartRef, floorTokensRef, floorLinesRef,
                 lineSeqIndexRef, lineTokenAccumRef, wasInCatchUpRef, lastFrameTimeRef,
                 lastSaveTimeRef, tokensPerLineRatioRef, isPausedRef, pauseEndRef,
                 nextPauseAtRef, speedMultiplierRef, speedChangeAtRef,
                 polls, reloads, loadedFloor, peakTokens, lastWriteAt,
                 prevWriteAt, failedPollAt>>

flowVars == <<flowCompletions, flowNow, flowPercent>>

serverVars == <<EDIT_PASSWORD, prioritiesStore, tagsStore, flowTasksStore, tagRequests,
                response>>

clientVars == <<priorities, draftPriorities, tags, draftFlowTasks, password,
                isAuthenticated, completingIdsRef, authCalls, completedIds>>

\* the state of the usage route and of the handlers of other routes in flight
routeVars == <<CURSOR_API_KEY, refreshInProgress, memoryCache, refreshCalls, usageGets,
               helperCalls, keeperCalls>>

boardVars == <<serverVars, clientVars, boardSteps, routeVars>>

\* what the flowkeeper GET and its caller write
keeperVars == <<completionsStore, flowTasks, prunedAway>>

vars == <<counterVars, flowVars, boardVars, keeperVars>>

----------------------------------------------------------------------------
(* Bounds of the model *)

Q == 10                     \* fixed-point resolution: units per token / per line
MaxPolls == 2               \* polls in one run
MaxReloads == 1             \* page reloads in one run
MaxClock == 22001           \* frames are generated while clock <= MaxClock (ms)

----------------------------------------------------------------------------
(* Arithmetic helpers *)

Max(a, b) == IF a >= b THEN a ELSE b
Min(a, b) == IF a <= b THEN a ELSE b

\* Math.floor of a fixed-point value, as a whole number
Floor(xQ) == xQ \div Q

\* Math.round(n / d) for d > 0: the nearest integer, ties upward
RoundDiv(n, d) == (2 * n + d) \div (2 * d)

----------------------------------------------------------------------------
(* Animation constants (src/app/page.tsx) *)

TOKEN_BUFFER == 50000000
RAMP_SECONDS == 35
SAVE_LAG_TOKENS == 500000
NORMAL_ZONE == SAVE_LAG_TOKENS
MAX_TOKENS_PER_MS == 1500           \* 1.5 tokens/ms, in thousandths
LINE_COST_MULTIPLIER == 200
DEFAULT_TOKENS_PER_LINE == 21000
SAVE_INTERVAL_MS == 10000

LINE_TOKEN_SEQ == <<
    10,0,13,0,4,25,21,22,0,7,12,18,1,0,10,11,1,0,11,0,4,7,8,1,0,24,3,20,6,4,8,9,2,10,2,0,15,7,14,2,0,8,8,6,4,3,2,1,0,9,0,4,5,6,6,7,7,7,2,8,1,0,5,8,4,6,5,5,6,2,8,1,0,7,5,5,5,5,5,10,3,20,6,4,8,9,2,14,2,0,15,7,19,2,0,9,6,4,4,2,1,0,11,18,8,7,7,0,6,17,12,0,11,8,14,14,2,2,0,10,3,0,10,6,2,0,5,1,0,9,12,10,0,12,6,19,2,0,10,22,9,2,0,7,21,25,0,7,18,9,8,13,14,5,2,0,10,8,0,15,20,13,0,10,9,16,2,11,10,15,2,2,0,8,7,0,15,9,17,6,2,0,5,12,7,2,2,0,5,10,10,7,2,0,6,7,1
>>

RECURSIVE SumSeq(_, _)
SumSeq(s, i) == IF i > Len(s) THEN 0 ELSE s[i] + SumSeq(s, i + 1)

\* SEQ_AVG = SEQ_SUM / SEQ_LEN, kept as a fraction
SEQ_SUM == SumSeq(LINE_TOKEN_SEQ, 1)
SEQ_LEN == Len(LINE_TOKEN_SEQ)

\* tokens / VISUAL_TOKENS_PER_LINE, where VISUAL_TOKENS_PER_LINE is
\* SEQ_AVG * LINE_COST_MULTIPLIER = SEQ_SUM * LINE_COST_MULTIPLIER / SEQ_LEN.
\* Math.round(tokens / VISUAL_TOKENS_PER_LINE) for a multiple of LINE_COST_MULTIPLIER:
RoundVisualLines(tokens) ==
    RoundDiv((tokens \div LINE_COST_MULTIPLIER) * SEQ_LEN, SEQ_SUM)

\* tokensQ / VISUAL_TOKENS_PER_LINE as a fixed-point number of lines
VisualLinesQ(tokensQ) == (tokensQ * SEQ_LEN) \div (SEQ_SUM * LINE_COST_MULTIPLIER)

linesBuffer == RoundVisualLines(TOKEN_BUFFER)
saveLagLines == RoundVisualLines(SAVE_LAG_TOKENS)

----------------------------------------------------------------------------
(* Inputs *)

Undefined == -1             \* a field the JSON response does not carry
NoItem == -1                \* localStorage.getItem(...) === null

\* res.json() of GET /api/cursor-usage, or a fetch / parse that throws
UsageResponses ==
    { [throws |-> FALSE, tokens |-> 50400000, linesOfCode |-> 37000],
      [throws |-> FALSE, tokens |-> 53600000, linesOfCode |-> 39000],
      [throws |-> FALSE, tokens |-> 50000000, linesOfCode |-> 0],
      [throws |-> FALSE, tokens |-> Undefined, linesOfCode |-> Undefined],
      [throws |-> TRUE,  tokens |-> Undefined, linesOfCode |-> Undefined] }

FrameDeltas == {2000, 10001}        \* ms between two animation frames
RandomDraws == {0, 999}             \* Math.random() in thousandths
\* the draw that spaces the speed re-rolls: kept at its minimum, so that several
\* re-rolls fall before MaxClock
DelayDraws == {0}

\* base + Math.random() * span
Jitter(base, span, r) == base + (r * span) \div 1000

NoUsage == [throws |-> FALSE, tokens |-> Undefined, linesOfCode |-> Undefined]

\* variant: the stored value is not read
GetNumber_Zero(item) == 0

\* Number(localStorage.getItem(key) || '0')
GetNumber(item) == IF item = NoItem THEN 0 ELSE item

----------------------------------------------------------------------------
(* fetchAndUpdateUsage *)

\* variant: the handler goes on with a response that carries no totals
PollAborts_ThrowOnly(resp) == resp.throws

\* the fetch or the JSON parse throws, or the response carries neither field
PollAborts(resp) ==
    resp.throws \/ (resp.tokens = Undefined /\ resp.linesOfCode = Undefined)

\* variant: the target follows the latest poll down
NewTarget_Latest(fresh, buffer, target) == fresh - buffer

\* Math.max(fresh - buffer, current target)
NewTarget(fresh, buffer, target) == Max(fresh - buffer, target)

\* the "Initialize on first load" condition
IsFirstLoad == floorTokensRef = 0 /\ floorLinesRef = 0 /\ displayedTokensRef = 0

fetchAndUpdateUsage(resp) ==
    /\ polls < MaxPolls
    /\ polls' = polls + 1
    /\ UNCHANGED <<localStorage, clock, lineSeqIndexRef, wasInCatchUpRef, lastFrameTimeRef,
                   lastSaveTimeRef, isPausedRef, pauseEndRef, nextPauseAtRef,
                   speedMultiplierRef, speedChangeAtRef, reloads, loadedFloor, lastWriteAt,
                   prevWriteAt>>
    /\ UNCHANGED <<flowVars, boardVars, keeperVars>>
    /\ failedPollAt' = IF PollAborts(resp) THEN displayedTokensRef ELSE -1
    /\ IF PollAborts(resp)
       THEN UNCHANGED <<cursorUsage, displayedTokens, displayedLines, displayedTokensRef,
                        displayedLinesRef, targetTokensRef, targetLinesRef, tokenStartRef,
                        linesStartRef, floorTokensRef, floorLinesRef, lineTokenAccumRef,
                        tokensPerLineRatioRef, peakTokens>>
       ELSE LET storedTokens == GetNumber(localStorage.tokens)
                storedLines == GetNumber(localStorage.lines)
                tokenTarget == NewTarget(resp.tokens, TOKEN_BUFFER, targetTokensRef)
                linesTarget == NewTarget(resp.linesOfCode, linesBuffer, targetLinesRef)
            IN  /\ cursorUsage' = resp
                /\ peakTokens' = Max(peakTokens, resp.tokens)
                /\ tokensPerLineRatioRef' =
                       IF resp.linesOfCode > 0
                       THEN (resp.tokens * Q) \div resp.linesOfCode
                       ELSE tokensPerLineRatioRef
                /\ targetTokensRef' = tokenTarget
                /\ targetLinesRef' = linesTarget
                /\ IF IsFirstLoad
                   THEN /\ floorTokensRef' = storedTokens
                        /\ floorLinesRef' = storedLines
                        /\ displayedTokensRef' = storedTokens * Q
                        /\ tokenStartRef' = storedTokens * Q
                        /\ displayedTokens' = storedTokens
                        /\ displayedLinesRef' = storedLines * Q
                        /\ linesStartRef' = storedLines * Q
                        /\ displayedLines' = storedLines
                   ELSE /\ tokenStartRef' = displayedTokensRef
                        /\ linesStartRef' = displayedLinesRef
                        /\ UNCHANGED <<floorTokensRef, floorLinesRef, displayedTokensRef,
                                       displayedTokens, displayedLinesRef, displayedLines>>
                /\ lineTokenAccumRef' = 0

----------------------------------------------------------------------------
(* animate(timestamp): one animation frame *)

\* variant: the pause logic runs whatever the gap is
PauseStep_AnyZone(timestamp, r) ==
    LET inNormalZone ==
            /\ targetTokensRef > 0
    IN  IF inNormalZone
        THEN IF isPausedRef
             THEN IF timestamp >= pauseEndRef
                  THEN [skip |-> FALSE, isPaused |-> FALSE, pauseEnd |-> pauseEndRef,
                        nextPauseAt |-> Jitter(timestamp + 30000, 270000, r)]
                  ELSE [skip |-> TRUE, isPaused |-> TRUE, pauseEnd |-> pauseEndRef,
                        nextPauseAt |-> nextPauseAtRef]
             ELSE IF timestamp >= nextPauseAtRef
                  THEN [skip |-> TRUE, isPaused |-> TRUE,
                        pauseEnd |-> Jitter(timestamp + 300, 4700, r),
                        nextPauseAt |-> nextPauseAtRef]
                  ELSE [skip |-> FALSE, isPaused |-> FALSE, pauseEnd |-> pauseEndRef,
                        nextPauseAt |-> nextPauseAtRef]
        ELSE [skip |-> FALSE, isPaused |-> FALSE, pauseEnd |-> pauseEndRef,
              nextPauseAt |-> nextPauseAtRef]

\* Random pause logic.  skip: the frame returns before animating anything.
PauseStep(timestamp, r) ==
    LET inNormalZone ==
            /\ targetTokensRef > 0
            /\ targetTokensRef * Q - displayedTokensRef <= SAVE_LAG_TOKENS * Q
    IN  IF inNormalZone
        THEN IF isPausedRef
             THEN IF timestamp >= pauseEndRef
                  THEN [skip |-> FALSE, isPaused |-> FALSE, pauseEnd |-> pauseEndRef,
                        nextPauseAt |-> Jitter(timestamp + 30000, 270000, r)]
                  ELSE [skip |-> TRUE, isPaused |-> TRUE, pauseEnd |-> pauseEndRef,
                        nextPauseAt |-> nextPauseAtRef]
             ELSE IF timestamp >= nextPauseAtRef
                  THEN [skip |-> TRUE, isPaused |-> TRUE,
                        pauseEnd |-> Jitter(timestamp + 300, 4700, r),
                        nextPauseAt |-> nextPauseAtRef]
                  ELSE [skip |-> FALSE, isPaused |-> FALSE, pauseEnd |-> pauseEndRef,
                        nextPauseAt |-> nextPauseAtRef]
        ELSE [skip |-> FALSE, isPaused |-> FALSE, pauseEnd |-> pauseEndRef,
              nextPauseAt |-> nextPauseAtRef]

\* Random speed variation: the multiplier (thousandths) and its next change
SpeedStep(timestamp, rMult, rAt) ==
    IF timestamp >= speedChangeAtRef
    THEN [mult |-> Jitter(300, 2700, rMult), changeAt |-> Jitter(timestamp + 5000, 15000, rAt)]
    ELSE [mult |-> speedMultiplierRef, changeAt |-> speedChangeAtRef]

\* variant: the catch-up speed has no lower bound of 500 tokens per ms
CatchUpInc_NoFloor(tokenGap, deltaMs) == (tokenGap \div (3 * 1000)) * deltaMs

\* catchUpSpeed * deltaMs, in 1/Q tokens
CatchUpInc(tokenGap, deltaMs) == Max(tokenGap \div (3 * 1000), 500 * Q) * deltaMs

\* baseTokenSpeed * deltaMs * speedMult, in 1/Q tokens
NormalInc(tokenGap, deltaMs, speedMult) ==
    LET baseTokenSpeed ==           \* thousandths of a token per ms
            Min(Max(tokenGap \div (RAMP_SECONDS * Q), 100), MAX_TOKENS_PER_MS)
    IN  (((baseTokenSpeed * speedMult) \div 1000) * deltaMs * Q) \div 1000

\* variant: the advance is not capped at the target
Advance_NoCap(displayed, inc, target) == displayed + inc

\* Math.min(displayed + increment, target)
Advance(displayed, inc, target) == Min(displayed + inc, target)

\* "Animate tokens": the token advance and the catch-up -> normal transition
TokenStep(deltaMs, speedMult) ==
    LET tokenGap == targetTokensRef * Q - displayedTokensRef
        inCatchUp == tokenGap > NORMAL_ZONE * Q
        transition == tokenGap > 0 /\ ~inCatchUp /\ wasInCatchUpRef
        lineStart == targetLinesRef * Q - VisualLinesQ(tokenGap)
        tokenInc == IF tokenGap > 0
                    THEN IF inCatchUp THEN CatchUpInc(tokenGap, deltaMs)
                                      ELSE NormalInc(tokenGap, deltaMs, speedMult)
                    ELSE 0
    IN  [ tokenInc      |-> tokenInc,
          inCatchUp     |-> inCatchUp,
          tokensChanged |-> tokenGap > 0,
          tokens        |-> IF tokenGap > 0
                            THEN Advance(displayedTokensRef, tokenInc, targetTokensRef * Q)
                            ELSE displayedTokensRef,
          wasInCatchUp  |-> IF transition THEN FALSE ELSE wasInCatchUpRef,
          tokenStart    |-> IF transition THEN displayedTokensRef ELSE tokenStartRef,
          accum         |-> IF transition THEN 0 ELSE lineTokenAccumRef,
          linesStart    |-> IF transition THEN lineStart ELSE linesStartRef,
          lines         |-> IF transition /\ displayedLinesRef > lineStart
                            THEN lineStart ELSE displayedLinesRef ]

\* variant: a line is taken whenever the accumulator holds anything
RECURSIVE PayLines_OnCredit(_, _, _, _)
PayLines_OnCredit(lines, accum, seqIndex, linesAdded) ==
    IF lines + linesAdded * Q < targetLinesRef * Q
    THEN LET rawCost == LINE_TOKEN_SEQ[(seqIndex % SEQ_LEN) + 1]
             cost == rawCost * LINE_COST_MULTIPLIER * Q
         IN  IF rawCost = 0 \/ accum > 0
             THEN PayLines_OnCredit(lines, accum - cost, seqIndex + 1, linesAdded + 1)
             ELSE [accum |-> accum, seqIndex |-> seqIndex, linesAdded |-> linesAdded]
    ELSE [accum |-> accum, seqIndex |-> seqIndex, linesAdded |-> linesAdded]

\* the while loop of the sequence-driven pacing: pay for lines out of the accumulator
RECURSIVE PayLines(_, _, _, _)
PayLines(lines, accum, seqIndex, linesAdded) ==
    IF lines + linesAdded * Q < targetLinesRef * Q
    THEN LET rawCost == LINE_TOKEN_SEQ[(seqIndex % SEQ_LEN) + 1]
             cost == rawCost * LINE_COST_MULTIPLIER * Q
         IN  IF rawCost = 0 \/ accum >= cost
             THEN PayLines(lines, accum - cost, seqIndex + 1, linesAdded + 1)
             ELSE [accum |-> accum, seqIndex |-> seqIndex, linesAdded |-> linesAdded]
    ELSE [accum |-> accum, seqIndex |-> seqIndex, linesAdded |-> linesAdded]

\* variant: the lines have a pace of their own: a tick of the normal zone feeds
\* at least the cost of an average line, whether or not the tokens have moved
LineStep_OwnPace(tok) ==
    IF tok.lines < targetLinesRef * Q
    THEN IF tok.inCatchUp
         THEN [ lines |-> Min(tok.lines + (tok.tokenInc * Q) \div tokensPerLineRatioRef,
                              targetLinesRef * Q),
                accum |-> tok.accum, seqIndex |-> lineSeqIndexRef, linesChanged |-> TRUE ]
         ELSE LET feed == Max(tok.tokenInc, (SEQ_SUM * LINE_COST_MULTIPLIER * Q) \div SEQ_LEN)
                  paid == PayLines(tok.lines, tok.accum + feed, lineSeqIndexRef, 0)
              IN  [ lines |-> tok.lines + paid.linesAdded * Q,
                    accum |-> paid.accum, seqIndex |-> paid.seqIndex,
                    linesChanged |-> paid.linesAdded > 0 ]
    ELSE [ lines |-> tok.lines, accum |-> tok.accum, seqIndex |-> lineSeqIndexRef,
           linesChanged |-> FALSE ]

\* "Animate lines", given the result of the token step
LineStep(tok) ==
    IF tok.tokenInc > 0 /\ tok.lines < targetLinesRef * Q
    THEN IF tok.inCatchUp
         THEN [ lines |-> Min(tok.lines + (tok.tokenInc * Q) \div tokensPerLineRatioRef,
                              targetLinesRef * Q),
                accum |-> tok.accum, seqIndex |-> lineSeqIndexRef, linesChanged |-> TRUE ]
         ELSE LET paid == PayLines(tok.lines, tok.accum + tok.tokenInc, lineSeqIndexRef, 0)
              IN  [ lines |-> tok.lines + paid.linesAdded * Q,
                    accum |-> paid.accum, seqIndex |-> paid.seqIndex,
                    linesChanged |-> paid.linesAdded > 0 ]
    ELSE [ lines |-> tok.lines, accum |-> tok.accum, seqIndex |-> lineSeqIndexRef,
           linesChanged |-> FALSE ]

\* variant: the animated value is shown as it is
VisibleValue_Raw(anim, floor) == anim

\* display = max(animated, floor)
VisibleValue(anim, floor) == Max(anim, floor)

\* variant: the floor follows the animated value unconditionally
NewFloor_Follow(anim, floor) == anim

\* "Update floor once animation surpasses it"
NewFloor(anim, floor) == IF anim > floor THEN anim ELSE floor

\* the periodic save is due
SaveDue(timestamp, lastSaveTime) == timestamp - lastSaveTime > SAVE_INTERVAL_MS

\* the value saved: Math.max(0, Math.floor(displayed) - lag)
SaveValue(displayedQ, lag) == Max(0, Floor(displayedQ) - lag)

\* variant: the value is written without comparing it with the stored one
SetItemIfHigher_Always(item, save) == save

\* if (save > stored) localStorage.setItem(key, String(save))
SetItemIfHigher(item, save) == IF save > GetNumber(item) THEN save ELSE item

animate(timestamp, rPause, rMult, rAt) ==
    LET deltaMs == timestamp - (IF lastFrameTimeRef = 0 THEN timestamp ELSE lastFrameTimeRef)
        pause == PauseStep(timestamp, rPause)
        speed == SpeedStep(timestamp, rMult, rAt)
        tok == TokenStep(deltaMs, speed.mult)
        lin == LineStep(tok)
        changed == tok.tokensChanged \/ lin.linesChanged
        animTokens == Floor(tok.tokens)
        animLines == Floor(lin.lines)
        saving == changed /\ SaveDue(timestamp, lastSaveTimeRef)
        saved == [ tokens |-> SetItemIfHigher(localStorage.tokens,
                                              SaveValue(tok.tokens, SAVE_LAG_TOKENS)),
                   lines  |-> SetItemIfHigher(localStorage.lines,
                                              SaveValue(lin.lines, saveLagLines)) ]
    IN  /\ clock' = timestamp
        /\ lastFrameTimeRef' = timestamp
        /\ isPausedRef' = pause.isPaused
        /\ pauseEndRef' = pause.pauseEnd
        /\ nextPauseAtRef' = pause.nextPauseAt
        /\ UNCHANGED <<cursorUsage, targetTokensRef, targetLinesRef, tokensPerLineRatioRef,
                       polls, reloads, loadedFloor, peakTokens, failedPollAt>>
        /\ UNCHANGED <<flowVars, boardVars, keeperVars>>
        /\ IF pause.skip
           THEN UNCHANGED <<localStorage, displayedTokens, displayedLines, displayedTokensRef,
                            displayedLinesRef, tokenStartRef, linesStartRef, floorTokensRef,
                            floorLinesRef, lineSeqIndexRef, lineTokenAccumRef, wasInCatchUpRef,
                            lastSaveTimeRef, speedMultiplierRef, speedChangeAtRef, lastWriteAt,
                            prevWriteAt>>
           ELSE /\ speedMultiplierRef' = speed.mult
                /\ speedChangeAtRef' = speed.changeAt
                /\ displayedTokensRef' = tok.tokens
                /\ wasInCatchUpRef' = tok.wasInCatchUp
                /\ tokenStartRef' = tok.tokenStart
                /\ linesStartRef' = tok.linesStart
                /\ displayedLinesRef' = lin.lines
                /\ lineTokenAccumRef' = lin.accum
                /\ lineSeqIndexRef' = lin.seqIndex
                /\ IF tok.tokensChanged
                   THEN /\ displayedTokens' = VisibleValue(animTokens, floorTokensRef)
                        /\ floorTokensRef' = NewFloor(animTokens, floorTokensRef)
                   ELSE UNCHANGED <<displayedTokens, floorTokensRef>>
                /\ IF lin.linesChanged
                   THEN /\ displayedLines' = VisibleValue(animLines, floorLinesRef)
                        /\ floorLinesRef' = NewFloor(animLines, floorLinesRef)
                   ELSE UNCHANGED <<displayedLines, floorLinesRef>>
                /\ lastSaveTimeRef' = IF saving THEN timestamp ELSE lastSaveTimeRef
                /\ localStorage' = IF saving THEN saved ELSE localStorage
                /\ lastWriteAt' = IF saving /\ saved # localStorage THEN timestamp ELSE lastWriteAt
                /\ prevWriteAt' = IF saving /\ saved # localStorage THEN lastWriteAt ELSE prevWriteAt

\* requestAnimationFrame delivers the next frame
Frame ==
    \E d \in FrameDeltas, rPause \in RandomDraws, rMult \in RandomDraws, rAt \in DelayDraws :
        /\ clock + d <= MaxClock
        /\ animate(clock + d, rPause, rMult, rAt)

\* fetchAndUpdateUsage runs (on mount, then on the POLL_INTERVAL timer)
Poll == \E resp \in UsageResponses : fetchAndUpdateUsage(resp)

----------------------------------------------------------------------------
(* Page load *)

\* useRef / useState initial values and the mount effect of the animation loop,
\* for a page loaded with `stored` in localStorage
PageLoaded(stored, rPause, rMult, rAt) ==
    /\ localStorage = stored
    /\ clock = 0
    /\ cursorUsage = NoUsage
    /\ displayedTokens = 0 /\ displayedLines = 0
    /\ displayedTokensRef = 0 /\ displayedLinesRef = 0
    /\ targetTokensRef = 0 /\ targetLinesRef = 0
    /\ tokenStartRef = 0 /\ linesStartRef = 0
    /\ floorTokensRef = 0 /\ floorLinesRef = 0
    /\ lineSeqIndexRef = 0 /\ lineTokenAccumRef = 0
    /\ wasInCatchUpRef = TRUE
    /\ lastFrameTimeRef = 0 /\ lastSaveTimeRef = 0
    /\ tokensPerLineRatioRef = DEFAULT_TOKENS_PER_LINE * Q
    /\ isPausedRef = FALSE /\ pauseEndRef = 0
    /\ nextPauseAtRef = Jitter(10000, 50000, rPause)
    /\ speedChangeAtRef = Jitter(5000, 15000, rAt)
    /\ speedMultiplierRef = Jitter(300, 2700, rMult)
    /\ loadedFloor = stored
    /\ lastWriteAt = -1 /\ prevWriteAt = -1 /\ failedPollAt = -1

\* the user reloads the page: localStorage survives, everything in memory starts over
\* from the same initial values
Reload ==
    /\ reloads < MaxReloads
    /\ reloads' = reloads + 1
    /\ \E rPause \in RandomDraws, rMult \in RandomDraws, rAt \in DelayDraws :
        /\ nextPauseAtRef' = Jitter(10000, 50000, rPause)
        /\ speedChangeAtRef' = Jitter(5000, 15000, rAt)
        /\ speedMultiplierRef' = Jitter(300, 2700, rMult)
    /\ clock' = 0
    /\ cursorUsage' = NoUsage
    /\ displayedTokens' = 0 /\ displayedLines' = 0
    /\ displayedTokensRef' = 0 /\ displayedLinesRef' = 0
    /\ targetTokensRef' = 0 /\ targetLinesRef' = 0
    /\ tokenStartRef' = 0 /\ linesStartRef' = 0
    /\ floorTokensRef' = 0 /\ floorLinesRef' = 0
    /\ lineSeqIndexRef' = 0 /\ lineTokenAccumRef' = 0
    /\ wasInCatchUpRef' = TRUE
    /\ lastFrameTimeRef' = 0 /\ lastSaveTimeRef' = 0
    /\ tokensPerLineRatioRef' = DEFAULT_TOKENS_PER_LINE * Q
    /\ isPausedRef' = FALSE /\ pauseEndRef' = 0
    /\ loadedFloor' = localStorage
    /\ lastWriteAt' = -1 /\ prevWriteAt' = -1 /\ failedPollAt' = -1
    /\ UNCHANGED <<localStorage, polls, peakTokens>>
    /\ UNCHANGED <<flowVars, boardVars, keeperVars>>

FlowIdle == flowCompletions = <<>> /\ flowNow = 0 /\ flowPercent = 0

\* the value null of a draft list
NoDraft == [editing |-> FALSE, list |-> <<>>]

\* a draft list that is not null
Draft(list) == [editing |-> TRUE, list |-> list]

DEFAULT_TAGS ==
    << [value |-> "docs-general",   label |-> "Documentation & Reporting"],
       [value |-> "docs-design",    label |-> "Solution Design"],
       [value |-> "communications", label |-> "Communications"],
       [value |-> "emails",         label |-> "Catching Up on Messages"],
       [value |-> "prog-bugfix",    label |-> "Programming - Bug Fixes"],
       [value |-> "prog-features",  label |-> "Programming - New Features"],
       [value |-> "prog-newapp",    label |-> "Programming - New Project"],
       [value |-> "prog-refactor",  label |-> "Programming - Refactoring"],
       [value |-> "prog-review",    label |-> "Code Review"],
       [value |-> "meetings",       label |-> "Meetings & Calls"],
       [value |-> "planning",       label |-> "Planning & Strategy"],
       [value |-> "review",         label |-> "Review & Feedback"],
       [value |-> "research",       label |-> "Research & Analysis"],
       [value |-> "learning",       label |-> "Learning & Development"],
       [value |-> "admin-work",     label |-> "Administrative Tasks"],
       [value |-> "admin-personal", label |-> "Personal Admin"],
       [value |-> "scheduling",     label |-> "Scheduling & Coordination"],
       [value |-> "errands",        label |-> "Errands"],
       [value |-> "health",         label |-> "Health & Wellness"],
       [value |-> "side-project",   label |-> "Side Project"],
       [value |-> "creative",       label |-> "Creative Work"],
       [value |-> "misc",           label |-> "Miscellaneous"] >>

NoResponse == [route |-> "", method |-> "", status |-> 0, body |-> <<>>]

\* a server that has no password and no document yet
ServerIdle ==
    /\ EDIT_PASSWORD = "" /\ prioritiesStore = <<>> /\ tagsStore = DEFAULT_TAGS
    /\ flowTasksStore = <<>>

\* the page before any request: the initial values of the React state
ClientIdle ==
    /\ priorities = <<>> /\ draftPriorities = NoDraft /\ tags = <<>>
    /\ flowTasks = <<>> /\ draftFlowTasks = NoDraft
    /\ password = "" /\ isAuthenticated = FALSE
    /\ completingIdsRef = {} /\ authCalls = <<>> /\ completedIds = <<>>
    /\ tagRequests = <<>> /\ response = NoResponse
    /\ boardSteps = 0

\* the value null of readUsage
NoStored == [tokens |-> 0 - 1, linesOfCode |-> 0 - 1, fetchedAt |-> 0 - 1]

\* a call slot of a fetch helper that is not running
NoCall == [pc |-> "idle", retries |-> 0, pages |-> 0]

\* the usage route of a fresh server process, and no handler in flight
RouteIdle ==
    /\ CURSOR_API_KEY = "" /\ refreshInProgress = FALSE /\ memoryCache = NoStored
    /\ refreshCalls = <<>> /\ usageGets = <<>>
    /\ helperCalls = [h \in {} |-> NoCall]
    /\ keeperCalls = <<>>

BoardIdle == ServerIdle /\ ClientIdle /\ RouteIdle

\* no completion is stored
KeeperIdle == completionsStore = <<>> /\ prunedAway = <<>>

InitCounter ==
    /\ \E rPause \in RandomDraws, rMult \in RandomDraws, rAt \in DelayDraws :
           PageLoaded([tokens |-> NoItem, lines |-> NoItem], rPause, rMult, rAt)
    /\ polls = 0 /\ reloads = 0 /\ peakTokens = 0
    /\ FlowIdle
    /\ BoardIdle
    /\ KeeperIdle

NextCounter == Poll \/ Frame \/ Reload

SpecCounter == InitCounter /\ [][NextCounter]_vars

\* responses that put the target a few thousand tokens, or just more than the
\* normal zone, above a first visit, so that the displayed value reaches it
\* within MaxClock
PacingResponses ==
    { [throws |-> FALSE, tokens |-> 50001000, linesOfCode |-> 37000],
      [throws |-> FALSE, tokens |-> 50003000, linesOfCode |-> 37000],
      [throws |-> FALSE, tokens |-> 50600000, linesOfCode |-> 37000] }

\* the animator close to its target
NextPacing == (\E resp \in PacingResponses : fetchAndUpdateUsage(resp)) \/ Frame

SpecPacing == InitCounter /\ [][NextPacing]_vars

----------------------------------------------------------------------------
(* Properties of the usage counter (SpecCounter) *)

Polled == cursorUsage # NoUsage

\* C1: over any sequence of polls and frames, the token value and the line value
\* given to React (displayedTokens, displayedLines) never decrease from one
\* update to the next.
C1_ShownNeverDecreases ==
    [][(Poll \/ Frame) =>
          /\ displayedTokens' >= displayedTokens
          /\ displayedLines' >= displayedLines]_vars

\* the raw line value has been pulled back under the value on screen
C1_Witness ==
    /\ Polled
    /\ ~wasInCatchUpRef
    /\ displayedLines > 0
    /\ Floor(displayedLinesRef) < displayedLines

\* C2 (as claimed): after the first successful poll, the first-load initialisation
\* included, displayed tokens <= target tokens and displayed lines <= target lines.
C2_DisplayedAtMostTarget ==
    Polled =>
        /\ displayedTokens <= targetTokensRef
        /\ displayedLines <= targetLinesRef
        /\ displayedTokensRef <= targetTokensRef * Q

\* C3: every successful poll sets each target to max(previous target, fresh value
\* minus buffer), with 50,000,000 tokens of buffer and round(50,000,000 / visual
\* tokens per line) lines of buffer; so no poll lowers a target.
C3_TargetIsMaxWithPrevious ==
    [][\A resp \in UsageResponses :
          (fetchAndUpdateUsage(resp) /\ ~resp.throws /\ resp.tokens # Undefined) =>
              /\ targetTokensRef' =
                     Max(targetTokensRef, resp.tokens - 50000000)
              /\ targetLinesRef' =
                     Max(targetLinesRef,
                         resp.linesOfCode - RoundDiv((50000000 \div 200) * SEQ_LEN, SEQ_SUM))
              /\ targetTokensRef' >= targetTokensRef
              /\ targetLinesRef' >= targetLinesRef]_vars

\* the latest poll returned less than an earlier one and the targets stayed
C3_Witness ==
    /\ Polled
    /\ cursorUsage.tokens - TOKEN_BUFFER < targetTokensRef
    /\ cursorUsage.linesOfCode - linesBuffer < targetLinesRef
    /\ cursorUsage.tokens < peakTokens

\* C4: a page loaded with F in storage shows, from its first successful poll on,
\* token and line values that are at least F.
C4_ResumesAtFloor ==
    Polled =>
        /\ loadedFloor.tokens # NoItem => displayedTokens >= loadedFloor.tokens
        /\ loadedFloor.lines # NoItem => displayedLines >= loadedFloor.lines

\* a reloaded page with a floor in storage, polled, whose raw line value is under it
C4_Witness ==
    /\ reloads > 0
    /\ Polled
    /\ loadedFloor.tokens > 0
    /\ loadedFloor.lines > 0
    /\ lastFrameTimeRef > 0
    /\ Floor(displayedLinesRef) < loadedFloor.lines

\* C5 (as claimed): after the first poll the displayed token value is at most the
\* total returned by the latest poll minus 50,000,000.
C5_TrailsLatestPoll ==
    Polled => displayedTokens <= cursorUsage.tokens - TOKEN_BUFFER

\* C5 (amended): after the first poll the displayed token value is at most the
\* highest total any poll has returned so far, in this page load or an earlier
\* one, minus 50,000,000 (and at most 0 if that is negative).
C5_TrailsPeakPoll ==
    Polled =>
        /\ displayedTokens <= Max(0, peakTokens - 50000000)
        /\ displayedTokensRef <= Max(0, peakTokens - 50000000) * Q

\* the counter is above what the latest, lower poll would allow
C5_Witness ==
    /\ Polled
    /\ cursorUsage.tokens < peakTokens
    /\ displayedTokens > cursorUsage.tokens - TOKEN_BUFFER
    /\ displayedTokens > 0

\* C6: a poll that fails (it throws, or the response has neither tokens nor
\* linesOfCode) leaves targets, displayed values, floors, line pacing state and
\* storage as they were; frames after it still advance toward the last target,
\* and the poll that follows a failed one is handled like any other.
C6_FailedPollChangesNothing ==
    [][/\ \A resp \in UsageResponses :
              (/\ fetchAndUpdateUsage(resp)
               /\ (resp.throws \/ (resp.tokens = Undefined /\ resp.linesOfCode = Undefined)))
              => /\ UNCHANGED <<cursorUsage, displayedTokens, displayedLines,
                                displayedTokensRef, displayedLinesRef, targetTokensRef,
                                targetLinesRef, floorTokensRef, floorLinesRef,
                                lineTokenAccumRef, lineSeqIndexRef, tokensPerLineRatioRef,
                                tokenStartRef, linesStartRef, wasInCatchUpRef, localStorage,
                                isPausedRef>>
       /\ (/\ failedPollAt >= 0
           /\ Frame
           /\ ~isPausedRef'
           /\ lastFrameTimeRef # 0
           /\ displayedTokensRef < targetTokensRef * Q)
          => displayedTokensRef' > displayedTokensRef
       /\ \A resp \in UsageResponses :
              (/\ failedPollAt >= 0
               /\ fetchAndUpdateUsage(resp)
               /\ resp.tokens # Undefined)
              => /\ cursorUsage' = resp
                 /\ targetTokensRef' = Max(resp.tokens - TOKEN_BUFFER, targetTokensRef)]_vars

\* a poll failed while the counter was under way, and frames advanced it afterwards
C6_Witness ==
    /\ failedPollAt >= 0
    /\ targetTokensRef > 0
    /\ displayedTokensRef > failedPollAt

\* C7: on every frame that changes an axis, the value shown for it is
\* max(floor(raw value), floor) and the floor becomes that value; the floor of
\* each axis never decreases over frames and polls.
C7_ShownIsMaxWithFloor ==
    [][/\ Frame =>
              /\ displayedTokensRef' # displayedTokensRef =>
                     /\ displayedTokens' = Max(displayedTokensRef' \div Q, floorTokensRef)
                     /\ floorTokensRef' = displayedTokens'
              /\ displayedLinesRef' # displayedLinesRef =>
                     /\ displayedLines' = Max(displayedLinesRef' \div Q, floorLinesRef)
                     /\ floorLinesRef' = displayedLines'
       /\ (Frame \/ Poll) =>
              /\ floorTokensRef' >= floorTokensRef
              /\ floorLinesRef' >= floorLinesRef]_vars

\* the line floor holds the value on screen above a pulled-back raw value,
\* and the token floor has followed the animation
C7_Witness ==
    /\ Polled
    /\ floorLinesRef > Floor(displayedLinesRef)
    /\ floorLinesRef = displayedLines
    /\ floorTokensRef = Floor(displayedTokensRef)
    /\ floorTokensRef > GetNumber(loadedFloor.tokens)

\* C8: the value in storage never decreases for either axis: a frame writes
\* max(0, floor(displayed) - lag), lag 500,000 tokens or its line equivalent, and
\* only when that exceeds the stored value; two writing frames of a page load
\* are more than 10,000 ms apart.
C8_StorageOnlyGrows ==
    [][/\ GetNumber(localStorage'.tokens) >= GetNumber(localStorage.tokens)
       /\ GetNumber(localStorage'.lines) >= GetNumber(localStorage.lines)
       /\ localStorage'.tokens # localStorage.tokens =>
              /\ Frame
              /\ localStorage'.tokens = Max(0, (displayedTokensRef' \div Q) - 500000)
       /\ localStorage'.lines # localStorage.lines =>
              /\ Frame
              /\ localStorage'.lines =
                     Max(0, (displayedLinesRef' \div Q)
                            - RoundDiv((500000 \div 200) * SEQ_LEN, SEQ_SUM))
       /\ (localStorage' # localStorage /\ lastWriteAt >= 0) =>
              clock' - lastWriteAt > 10000]_vars

\* two frames of one page load have written storage
C8_Witness ==
    /\ prevWriteAt >= 0
    /\ lastWriteAt - prevWriteAt > SAVE_INTERVAL_MS
    /\ GetNumber(localStorage.tokens) > 0
    /\ GetNumber(localStorage.lines) > 0

----------------------------------------------------------------------------
(* Flow decay model: calculateFlowPercent and the effects that apply it.   *)
(* Times are whole minutes (3600_000 ms is HOUR), percentages are kept in  *)
(* units of 1/FLOW_SCALE percent, which makes every contribution exact.    *)

HOUR == 60
FLOW_SCALE == 24 * HOUR             \* a common multiple of the three durations

MaxCompletions == 2                 \* completions in the list
MaxFlowNow == 1800                  \* Date.now() is advanced up to this minute

DIFFICULTY_HOURS == (1 :> 4) @@ (2 :> 8) @@ (3 :> 12)
FLOW_GRANT == (1 :> 33) @@ (2 :> 43) @@ (3 :> 53)

Difficulties == {1, 2, 3}
CompletionTimes == {0, 600, 1000}   \* completedAt, minutes
FlowStarts == {0, 600}              \* Date.now() when the page is loaded
FlowSteps == {120, 240}             \* minutes between two looks at the clock

FlowCompletionRecords == [difficulty : Difficulties, completedAt : CompletionTimes]

\* the completion lists GET /api/flowkeeper can return
CompletionLists ==
    UNION { [1..n -> FlowCompletionRecords] : n \in 0..MaxCompletions }

\* variant: a completion keeps contributing (negatively) after it has expired
FlowContribution_NoExpiry(c, now) ==
    LET durationMs == DIFFICULTY_HOURS[c.difficulty] * HOUR
    IN  (FLOW_GRANT[c.difficulty] * (durationMs - (now - c.completedAt)) * FLOW_SCALE)
            \div durationMs

\* variant: a completion contributes the part of its grant that has elapsed
FlowContribution_Rising(c, now) ==
    LET durationMs == DIFFICULTY_HOURS[c.difficulty] * HOUR
        elapsed == now - c.completedAt
    IN  IF elapsed < durationMs
        THEN (FLOW_GRANT[c.difficulty] * elapsed * FLOW_SCALE) \div durationMs
        ELSE 0

\* the body of the loop: what one completion adds to total
FlowContribution(c, now) ==
    LET durationMs == (IF c.difficulty \in DOMAIN DIFFICULTY_HOURS
                       THEN DIFFICULTY_HOURS[c.difficulty] ELSE 4) * HOUR
        elapsed == now - c.completedAt
        grant == IF c.difficulty \in DOMAIN FLOW_GRANT THEN FLOW_GRANT[c.difficulty] ELSE 33
    IN  IF elapsed < durationMs
        THEN (grant * (durationMs - elapsed) * FLOW_SCALE) \div durationMs
        ELSE 0

RECURSIVE FlowTotal(_, _, _)
FlowTotal(completions, now, i) ==
    IF i > Len(completions) THEN 0
    ELSE FlowContribution(completions[i], now) + FlowTotal(completions, now, i + 1)

\* variant: the total is returned without the cap
calculateFlowPercent_NoCap(completions, now) == FlowTotal(completions, now, 1)

calculateFlowPercent(completions, now) ==
    Min(100 * FLOW_SCALE, FlowTotal(completions, now, 1))

\* fetchFlowkeeper: the completions of the response replace the list
fetchFlowkeeper(completions) ==
    /\ flowTasks' = flowTasksStore
    /\ flowCompletions' = completions
    /\ flowPercent' = calculateFlowPercent(completions, flowNow)
    /\ UNCHANGED flowNow
    /\ UNCHANGED <<counterVars, boardVars>>

\* the recalculation effect and its 100 ms interval
FlowTick ==
    /\ flowPercent' = IF Len(flowCompletions) = 0 THEN 0
                      ELSE calculateFlowPercent(flowCompletions, flowNow)
    /\ UNCHANGED <<flowCompletions, flowNow>>
    /\ UNCHANGED <<counterVars, boardVars, keeperVars>>

\* time passes
FlowClock ==
    \E dt \in FlowSteps :
        /\ flowNow + dt <= MaxFlowNow
        /\ flowNow' = flowNow + dt
        /\ UNCHANGED <<flowCompletions, flowPercent>>
        /\ UNCHANGED <<counterVars, boardVars, keeperVars>>

FetchFlow ==
    \E completions \in CompletionLists :
        /\ fetchFlowkeeper(completions)
        /\ UNCHANGED <<completionsStore, prunedAway>>

\* the page is loaded at one of the start times, the meter is empty
FlowStart ==
    /\ flowCompletions = <<>>
    /\ flowPercent = 0
    /\ flowNow \in FlowStarts
    /\ BoardIdle
    /\ PageLoaded([tokens |-> NoItem, lines |-> NoItem], 0, 0, 0)
    /\ polls = 0 /\ reloads = 0 /\ peakTokens = 0

InitFlow == FlowStart /\ KeeperIdle

NextFlow == FetchFlow \/ FlowTick \/ FlowClock

SpecFlow == InitFlow /\ [][NextFlow]_vars

----------------------------------------------------------------------------
(* GET /api/flowkeeper: the completions are pruned on their way out.  The   *)
(* server and the browser read the same clock, flowNow.                     *)

SEVEN_DAYS == 7 * 24 * HOUR

KeeperTimes == {0 - 9000, 0, 600}     \* completedAt of the stored completions, minutes

KeeperStores ==
    UNION { [1..n -> [difficulty : Difficulties, completedAt : KeeperTimes]] :
                n \in 0..MaxCompletions }

\* variant: completions are dropped one hour after they were made
pruneExpired_OneHour(completions, now) ==
    SelectSeq(completions, LAMBDA c : now - c.completedAt < HOUR)

pruneExpired(completions, now) ==
    SelectSeq(completions, LAMBDA c : now - c.completedAt < SEVEN_DAYS)

\* GET and the fetchFlowkeeper that called it; the write back is not awaited
\* and its failure is swallowed
FlowkeeperGET ==
    \E written \in BOOLEAN :
        LET rawCompletions == completionsStore
            completions == pruneExpired(rawCompletions, flowNow)
        IN  /\ completionsStore' =
                   IF Len(completions) # Len(rawCompletions) /\ written
                   THEN completions ELSE completionsStore
            /\ prunedAway' = SelectSeq(rawCompletions,
                                       LAMBDA c : \A i \in 1..Len(completions) : completions[i] # c)
            /\ fetchFlowkeeper(completions)

InitKeeper ==
    /\ FlowStart
    /\ completionsStore \in KeeperStores
    /\ prunedAway = <<>>

NextKeeper == FlowkeeperGET \/ FlowTick \/ FlowClock

SpecKeeper == InitKeeper /\ [][NextKeeper]_vars

----------------------------------------------------------------------------
(* Properties of the flow decay model (SpecFlow) *)

\* the table of the documentation: grant (percent) and duration (minutes)
DocGrant(d) == CASE d = 1 -> 33 [] d = 2 -> 43 [] d = 3 -> 53
DocDuration(d) == CASE d = 1 -> 4 * 60 [] d = 2 -> 8 * 60 [] d = 3 -> 12 * 60

\* grant * (1 - elapsed / duration) while the completion has not expired
DocShare(c, now) ==
    IF now - c.completedAt < DocDuration(c.difficulty)
    THEN (DocGrant(c.difficulty) * FLOW_SCALE
            * (DocDuration(c.difficulty) - (now - c.completedAt)))
         \div DocDuration(c.difficulty)
    ELSE 0

RECURSIVE DocSum(_, _, _)
DocSum(completions, now, n) ==
    IF n = 0 THEN 0 ELSE DocShare(completions[n], now) + DocSum(completions, now, n - 1)

\* C9: for every completion list and every time, completions dated after now
\* included, flowPercent is within [0, 100] and is the sum of the non-expired
\* contributions capped at 100; the empty list gives 0; two difficulty-3
\* completions dated now give 100.
C9_FlowWithinBounds ==
    LET p == calculateFlowPercent(flowCompletions, flowNow)
    IN  /\ 0 <= p /\ p <= 100 * FLOW_SCALE
        /\ 0 <= flowPercent /\ flowPercent <= 100 * FLOW_SCALE
        /\ p = Min(100 * FLOW_SCALE, DocSum(flowCompletions, flowNow, Len(flowCompletions)))
        /\ flowCompletions = <<>> => p = 0
        /\ (/\ Len(flowCompletions) = 2
            /\ \A i \in 1..2 : /\ flowCompletions[i].difficulty = 3
                               /\ flowCompletions[i].completedAt = flowNow)
           => p = 100 * FLOW_SCALE

\* the raw sum is past 100 (one completion is dated after now) and the meter shows 100
C9_Witness ==
    /\ Len(flowCompletions) = 2
    /\ \E i \in 1..2 : flowCompletions[i].completedAt > flowNow
    /\ DocSum(flowCompletions, flowNow, 2) > 100 * FLOW_SCALE
    /\ flowPercent = 100 * FLOW_SCALE

\* C10: a completion of difficulty d contributes grant(d) * (1 - elapsed/duration(d))
\* while 0 <= elapsed < duration(d) and 0 from elapsed = duration(d) on, with
\* (grant, duration) = (33, 4h), (43, 8h), (53, 12h): grant(d) at completedAt,
\* 0 at completedAt + duration(d).
C10_LinearDecay ==
    \A i \in 1..Len(flowCompletions) :
        LET c == flowCompletions[i]
            elapsed == flowNow - c.completedAt
            share == FlowContribution(c, flowNow)
        IN  elapsed >= 0 =>
                /\ share = DocShare(c, flowNow)
                /\ elapsed = 0 => share = DocGrant(c.difficulty) * FLOW_SCALE
                /\ elapsed >= DocDuration(c.difficulty) => share = 0
                /\ Len(flowCompletions) = 1 =>
                       calculateFlowPercent(flowCompletions, flowNow) = share

\* one completion part of the way down, another one expired, both on the meter's list
C10_Witness ==
    /\ Len(flowCompletions) = 2
    /\ \E i \in 1..2 :
           LET c == flowCompletions[i]
           IN  /\ flowNow - c.completedAt > 0
               /\ flowNow - c.completedAt < DocDuration(c.difficulty)
               /\ FlowContribution(c, flowNow) > 0
               /\ FlowContribution(c, flowNow) < DocGrant(c.difficulty) * FLOW_SCALE
    /\ \E i \in 1..2 :
           flowNow - flowCompletions[i].completedAt >= DocDuration(flowCompletions[i].difficulty)
    /\ flowPercent = calculateFlowPercent(flowCompletions, flowNow)
    /\ flowPercent > 0

\* the times after now at which the meter is looked at again
LaterTimes == {0, 1, 2 * HOUR, 4 * HOUR, 12 * HOUR}

\* C11: for a fixed completion list, flowPercent is non-increasing in time:
\* the value computed at a later time is at most the value computed now, and a
\* tick of the recalculation effect never raises the value on the meter.
C11_FlowNonIncreasing ==
    [][/\ \A d1 \in LaterTimes : \A d2 \in LaterTimes :
              d1 <= d2 =>
                  calculateFlowPercent(flowCompletions, flowNow + d2)
                      <= calculateFlowPercent(flowCompletions, flowNow + d1)
       /\ FlowTick => flowPercent' <= flowPercent]_vars

\* the meter shows a decayed value: the completions of the list were all made
\* a clock step ago or earlier, and the list gave more then than the meter shows now
C11_Witness ==
    /\ flowCompletions # <<>>
    /\ flowPercent = calculateFlowPercent(flowCompletions, flowNow)
    /\ flowPercent > 0
    /\ \E dt \in FlowSteps :
           /\ \A i \in 1..Len(flowCompletions) : flowCompletions[i].completedAt <= flowNow - dt
           /\ calculateFlowPercent(flowCompletions, flowNow - dt) > flowPercent

----------------------------------------------------------------------------
(* Attention meter: calculateWeight, calculateEffectiveLoad, calculateMood. *)
(* Weights and loads are kept in tenths (0.5 is 5, 15 is 150).              *)

MaxMeterTasks == 6                  \* tasks in a stored list of the meter
MaxBoardSteps == 5                  \* requests and edits in one run

WEIGHT_MAP == (1 :> 5) @@ (2 :> 15) @@ (3 :> 30)

\* variant: the risk of a task does not count
calculateWeight_NoRisk(priority) ==
    WEIGHT_MAP[priority.urgency] + WEIGHT_MAP[priority.importance]

calculateWeight(priority) ==
    WEIGHT_MAP[priority.risk] + WEIGHT_MAP[priority.urgency] + WEIGHT_MAP[priority.importance]

\* priorities.reduce((sum, p) => sum + calculateWeight(p), 0), from index i on
RECURSIVE ReduceWeights(_, _, _)
ReduceWeights(list, i, sum) ==
    IF i > Len(list) THEN sum
    ELSE ReduceWeights(list, i + 1, sum + calculateWeight(list[i]))

\* variant: a task counts as many times as its position in the list
RECURSIVE calculateEffectiveLoad_Positional(_)
calculateEffectiveLoad_Positional(list) ==
    IF Len(list) = 0 THEN 0
    ELSE Len(list) * calculateWeight(list[Len(list)])
             + calculateEffectiveLoad_Positional(SubSeq(list, 1, Len(list) - 1))

calculateEffectiveLoad(list) ==
    IF Len(list) = 0 THEN 0 ELSE ReduceWeights(list, 1, 0)

LOAD_THRESHOLDS == [calm |-> 150, busy |-> 350, max |-> 500]

\* variant: the boundaries belong to the lower band
calculateMood_Inclusive(list) ==
    LET load == calculateEffectiveLoad(list)
    IN  IF load <= LOAD_THRESHOLDS.calm THEN "calm"
        ELSE IF load <= LOAD_THRESHOLDS.busy THEN "busy"
        ELSE "stress"

calculateMood(list) ==
    LET load == calculateEffectiveLoad(list)
    IN  IF load < LOAD_THRESHOLDS.calm THEN "calm"
        ELSE IF load < LOAD_THRESHOLDS.busy THEN "busy"
        ELSE "stress"

\* draftPriorities ?? priorities
activePriorities == IF draftPriorities.editing THEN draftPriorities.list ELSE priorities

\* the values computed on every render
mood == calculateMood(activePriorities)
effectiveLoad == calculateEffectiveLoad(activePriorities)

moodLabels == [calm |-> "Feeling Good", busy |-> "Busy", stress |-> "Under Pressure"]

\* variant: the label changes at half of the scale already
getMoodLabel_Inclusive(m, percent) ==
    IF m = "busy" /\ percent >= 500 THEN "Very Busy" ELSE moodLabels[m]

\* percent is in tenths of a percent, as loadPercent is
getMoodLabel(m, percent) ==
    IF m = "busy" /\ percent > 500 THEN "Very Busy" ELSE moodLabels[m]

\* Math.min((effectiveLoad / LOAD_THRESHOLDS.max) * 100, 100), in tenths of a percent
loadPercent == Min((effectiveLoad * 1000) \div LOAD_THRESHOLDS.max, 1000)

\* variant: every task is coloured on the scale of the aggregate load
segmentMood_Aggregate(weight) ==
    IF weight >= LOAD_THRESHOLDS.busy THEN "stress"
    ELSE IF weight >= LOAD_THRESHOLDS.calm THEN "busy"
    ELSE "calm"

\* segment.weight >= 6 ? 'stress' : segment.weight >= 3 ? 'busy' : 'calm'
segmentMood(weight) ==
    IF weight >= 60 THEN "stress"
    ELSE IF weight >= 30 THEN "busy"
    ELSE "calm"

\* the place of the element x in a list sorted by weight, behind its equals
\* (Array.prototype.sort is stable)
RECURSIVE InsertByWeight(_, _)
InsertByWeight(sorted, x) ==
    IF sorted = <<>> THEN <<x>>
    ELSE IF Head(sorted).weight <= x.weight
         THEN <<Head(sorted)>> \o InsertByWeight(Tail(sorted), x)
         ELSE <<x>> \o sorted

\* list.sort((a, b) => a.weight - b.weight) of the first n elements
RECURSIVE SortByWeight(_, _)
SortByWeight(list, n) ==
    IF n = 0 THEN <<>> ELSE InsertByWeight(SortByWeight(list, n - 1), list[n])

\* [...activePriorities].map(p => ({ ...p, weight: calculateWeight(p) }))
\*     .sort((a, b) => a.weight - b.weight), with the colour of each segment
barSegments ==
    LET weighed == [k \in 1..Len(activePriorities) |->
                       [id |-> activePriorities[k].id, tag |-> activePriorities[k].tag,
                        risk |-> activePriorities[k].risk,
                        urgency |-> activePriorities[k].urgency,
                        importance |-> activePriorities[k].importance,
                        weight |-> calculateWeight(activePriorities[k])]]
        sorted == SortByWeight(weighed, Len(weighed))
    IN  [k \in 1..Len(sorted) |->
            [id |-> sorted[k].id, tag |-> sorted[k].tag, risk |-> sorted[k].risk,
             urgency |-> sorted[k].urgency, importance |-> sorted[k].importance,
             weight |-> sorted[k].weight, segmentMood |-> segmentMood(sorted[k].weight)]]

----------------------------------------------------------------------------
(* /api/priorities GET and fetchPriorities *)

NoHeader == "null"                  \* request.headers.get gives null

Bearer(pw) == "Bearer " \o pw

\* variant: the header is compared even when no password is configured
Authenticated_Unconfigured(authHeader) == authHeader = Bearer(EDIT_PASSWORD)

\* isAuthenticated of GET: password && authHeader === `Bearer ${password}`
Authenticated(authHeader) == EDIT_PASSWORD # "" /\ authHeader = Bearer(EDIT_PASSWORD)

\* ({ id, tag, risk, urgency, importance }) => ({ id, tag, risk, urgency, importance })
PublicView(list) ==
    [i \in 1..Len(list) |->
        [id |-> list[i].id, tag |-> list[i].tag, risk |-> list[i].risk,
         urgency |-> list[i].urgency, importance |-> list[i].importance]]

\* the body GET answers with, given the stored list
PrioritiesGET(authHeader, stored) ==
    IF Authenticated(authHeader) THEN stored ELSE PublicView(stored)

\* what every action of the board leaves alone, and the count of the run
BoardStep ==
    /\ boardSteps < MaxBoardSteps
    /\ boardSteps' = boardSteps + 1
    /\ UNCHANGED <<counterVars, flowVars, completionsStore, prunedAway, EDIT_PASSWORD,
                   completingIdsRef, authCalls, completedIds, routeVars>>

fetchPriorities(authPassword) ==
    LET authHeader == IF authPassword # "" THEN Bearer(authPassword) ELSE NoHeader
        data == PrioritiesGET(authHeader, prioritiesStore)
    IN  /\ BoardStep
        /\ priorities' = data
        /\ response' = [route |-> "/api/priorities", method |-> "GET", status |-> 200,
                        body |-> data]
        /\ UNCHANGED <<prioritiesStore, tagsStore, flowTasksStore, tagRequests, flowTasks,
                       draftPriorities, tags, draftFlowTasks, password, isAuthenticated>>

\* the fetch of the mount effect
FetchPriorities == fetchPriorities("")

\* the levels (risk, urgency, importance) of the stored tasks of the meter
MeterLevels == { <<1, 1, 1>>, <<3, 3, 3>>, <<2, 2, 3>>, <<2, 1, 2>> }

MeterStores ==
    UNION { { [i \in 1..n |->
                  [id |-> ToString(i), label |-> "private", tag |-> "misc",
                   risk |-> levels[i][1], urgency |-> levels[i][2],
                   importance |-> levels[i][3]]] : levels \in [1..n -> MeterLevels] } :
            n \in 0..MaxMeterTasks }

InitMeter ==
    /\ FlowIdle
    /\ KeeperIdle
    /\ RouteIdle
    /\ PageLoaded([tokens |-> NoItem, lines |-> NoItem], 0, 0, 0)
    /\ polls = 0 /\ reloads = 0 /\ peakTokens = 0
    /\ ClientIdle
    /\ EDIT_PASSWORD = "pw" /\ tagsStore = DEFAULT_TAGS /\ flowTasksStore = <<>>
    /\ prioritiesStore \in MeterStores

NextMeter == FetchPriorities

SpecMeter == InitMeter /\ [][NextMeter]_vars

----------------------------------------------------------------------------
(* The protected endpoints.  A handler is given the Authorization header   *)
(* of the request; the body of a response is kept when it is a list.       *)

MaxInFlight == 2                    \* /api/tags handlers between read and write

Reply(route, method, status, body) ==
    [route |-> route, method |-> method, status |-> status, body |-> body]

\* variant: the header is compared even when no password is configured
MutationGate_Unconfigured(authHeader) ==
    IF authHeader # Bearer(EDIT_PASSWORD) THEN 401 ELSE 200

\* priorities and flowkeeper, POST and DELETE: 500 when no password is
\* configured, 401 when the header is not the bearer of it, else the handler runs
MutationGate(authHeader) ==
    IF EDIT_PASSWORD = "" THEN 500
    ELSE IF authHeader # Bearer(EDIT_PASSWORD) THEN 401
    ELSE 200

\* tags, POST and DELETE: 401 in both cases
TagsGate(authHeader) ==
    IF EDIT_PASSWORD = "" \/ authHeader # Bearer(EDIT_PASSWORD) THEN 401 ELSE 200

\* POST /api/priorities: the body replaces the stored list
PrioritiesPOST(authHeader, body) ==
    LET status == MutationGate(authHeader)
    IN  /\ prioritiesStore' = IF status = 200 THEN body ELSE prioritiesStore
        /\ response' = Reply("/api/priorities", "POST", status, <<>>)

\* DELETE /api/priorities: the task with the id is filtered out
PrioritiesDELETE(authHeader, id) ==
    LET status == MutationGate(authHeader)
        filtered == SelectSeq(prioritiesStore, LAMBDA p : p.id # id)
    IN  /\ prioritiesStore' = IF status = 200 THEN filtered ELSE prioritiesStore
        /\ response' = Reply("/api/priorities", "DELETE", status, <<>>)

\* POST /api/flowkeeper: the body replaces the stored task list
FlowkeeperPOST(authHeader, body) ==
    LET status == MutationGate(authHeader)
    IN  /\ flowTasksStore' = IF status = 200 THEN body ELSE flowTasksStore
        /\ response' = Reply("/api/flowkeeper", "POST", status, <<>>)

\* DELETE /api/flowkeeper: the task with the id is filtered out
FlowkeeperDELETE(authHeader, id) ==
    LET status == MutationGate(authHeader)
        filtered == SelectSeq(flowTasksStore, LAMBDA t : t.id # id)
    IN  /\ flowTasksStore' = IF status = 200 THEN filtered ELSE flowTasksStore
        /\ response' = Reply("/api/flowkeeper", "DELETE", status, <<>>)

\* variant: no value is taken for a duplicate
TagExists_Never(list, value) == FALSE

\* tags.some(t => t.value === value)
TagExists(list, value) == \E i \in 1..Len(list) : list[i].value = value

\* variant: only the value is required
Missing_ValueOnly(value, label) == value = ""

\* !value || !label: a field that is absent or empty is the empty string here
Missing(value, label) == value = "" \/ label = ""

\* POST /api/tags up to "await readTags()" and the checks on what was read:
\* an accepted request waits in tagRequests for its write
TagsPOSTRead(authHeader, value, label, viaPage) ==
    LET status == TagsGate(authHeader)
        read == tagsStore
    IN  IF status # 200
        THEN /\ response' = Reply("/api/tags", "POST", status, <<>>)
             /\ UNCHANGED tagRequests
        ELSE IF Missing(value, label) \/ TagExists(read, value)
        THEN /\ response' = Reply("/api/tags", "POST", 400, <<>>)
             /\ UNCHANGED tagRequests
        ELSE /\ Len(tagRequests) < MaxInFlight
             /\ tagRequests' = Append(tagRequests,
                                      [method |-> "POST", authHeader |-> authHeader,
                                       value |-> value, read |-> read,
                                       tags |-> Append(read, [value |-> value, label |-> label]),
                                       viaPage |-> viaPage])
             /\ UNCHANGED response

\* DELETE /api/tags up to "await readTags()" and the filter
TagsDELETERead(authHeader, value, viaPage) ==
    LET status == TagsGate(authHeader)
        read == tagsStore
        filtered == SelectSeq(read, LAMBDA t : t.value # value)
    IN  IF status # 200
        THEN /\ response' = Reply("/api/tags", "DELETE", status, <<>>)
             /\ UNCHANGED tagRequests
        ELSE IF Len(filtered) = Len(read)
        THEN /\ response' = Reply("/api/tags", "DELETE", 404, <<>>)
             /\ UNCHANGED tagRequests
        ELSE /\ Len(tagRequests) < MaxInFlight
             /\ tagRequests' = Append(tagRequests,
                                      [method |-> "DELETE", authHeader |-> authHeader,
                                       value |-> value, read |-> read, tags |-> filtered,
                                       viaPage |-> viaPage])
             /\ UNCHANGED response

\* "await writeTags(...)" of the k-th waiting handler and its answer; the page
\* that sent the request takes the list of the answer (setTags(data.tags))
TagsWrite(k) ==
    LET req == tagRequests[k]
    IN  /\ BoardStep
        /\ tagsStore' = req.tags
        /\ response' = Reply("/api/tags", req.method, 200, req.tags)
        /\ tagRequests' = SubSeq(tagRequests, 1, k - 1)
                              \o SubSeq(tagRequests, k + 1, Len(tagRequests))
        /\ tags' = IF req.viaPage THEN req.tags ELSE tags
        /\ UNCHANGED <<prioritiesStore, flowTasksStore, flowTasks, priorities, draftPriorities,
                       draftFlowTasks, password, isAuthenticated>>

TagsWritten == \E k \in 1..Len(tagRequests) : TagsWrite(k)

----------------------------------------------------------------------------
(* Requests of any caller (SpecApi) *)

Headers == { NoHeader, Bearer("pw"), Bearer("wrong"), Bearer(""), "pw" }

ApiTask(id, label, tag) ==
    [id |-> id, label |-> label, tag |-> tag, risk |-> 1, urgency |-> 2, importance |-> 3]

\* the lists the store holds at the start, and the bodies of POST
ApiLists ==
    { <<>>,
      <<ApiTask("1", "private", "misc")>>,
      <<ApiTask("1", "secret", "misc"), ApiTask("2", "private", "research")>> }

ApiLabels == {"private", "secret"}

ApiFlowLists == { <<>>, <<[id |-> "f1", label |-> "walk", difficulty |-> 1]>> }

ApiTagInputs ==
    { <<"deep", "Deep Work">>, <<"misc", "Other">>, <<"", "">>, <<"deep", "">>, <<"", "Deep Work">> }

ApiTagValues == {"misc", "deep"}

\* what a request of another caller leaves alone
PageUntouched ==
    UNCHANGED <<priorities, draftPriorities, tags, draftFlowTasks, password,
                isAuthenticated, flowTasks>>

GetPriorities(authHeader) ==
    /\ BoardStep
    /\ response' = Reply("/api/priorities", "GET", 200,
                         PrioritiesGET(authHeader, prioritiesStore))
    /\ UNCHANGED <<prioritiesStore, tagsStore, flowTasksStore, tagRequests>>
    /\ PageUntouched

PostPriorities(authHeader, body) ==
    /\ BoardStep
    /\ PrioritiesPOST(authHeader, body)
    /\ UNCHANGED <<tagsStore, flowTasksStore, tagRequests>>
    /\ PageUntouched

DeletePriorities(authHeader, id) ==
    /\ BoardStep
    /\ PrioritiesDELETE(authHeader, id)
    /\ UNCHANGED <<tagsStore, flowTasksStore, tagRequests>>
    /\ PageUntouched

PostFlowkeeper(authHeader, body) ==
    /\ BoardStep
    /\ FlowkeeperPOST(authHeader, body)
    /\ UNCHANGED <<prioritiesStore, tagsStore, tagRequests>>
    /\ PageUntouched

DeleteFlowkeeper(authHeader, id) ==
    /\ BoardStep
    /\ FlowkeeperDELETE(authHeader, id)
    /\ UNCHANGED <<prioritiesStore, tagsStore, tagRequests>>
    /\ PageUntouched

PostTags(authHeader, value, label) ==
    /\ BoardStep
    /\ TagsPOSTRead(authHeader, value, label, FALSE)
    /\ UNCHANGED <<prioritiesStore, tagsStore, flowTasksStore>>
    /\ PageUntouched

DeleteTags(authHeader, value) ==
    /\ BoardStep
    /\ TagsDELETERead(authHeader, value, FALSE)
    /\ UNCHANGED <<prioritiesStore, tagsStore, flowTasksStore>>
    /\ PageUntouched

InitApi ==
    /\ FlowIdle
    /\ KeeperIdle
    /\ RouteIdle
    /\ PageLoaded([tokens |-> NoItem, lines |-> NoItem], 0, 0, 0)
    /\ polls = 0 /\ reloads = 0 /\ peakTokens = 0
    /\ ClientIdle
    /\ EDIT_PASSWORD \in {"", "pw"}
    /\ prioritiesStore \in ApiLists
    /\ tagsStore = DEFAULT_TAGS
    /\ flowTasksStore \in ApiFlowLists

NextApi ==
    \/ FetchPriorities
    \/ \E h \in Headers : GetPriorities(h)
    \/ \E h \in Headers : \E body \in ApiLists : PostPriorities(h, body)
    \/ \E h \in Headers : \E id \in {"1", "2"} : DeletePriorities(h, id)
    \/ \E h \in Headers : \E body \in ApiFlowLists : PostFlowkeeper(h, body)
    \/ \E h \in Headers : DeleteFlowkeeper(h, "f1")
    \/ \E h \in Headers : \E in \in ApiTagInputs : PostTags(h, in[1], in[2])
    \/ \E h \in Headers : \E value \in ApiTagValues : DeleteTags(h, value)
    \/ TagsWritten

SpecApi == InitApi /\ [][NextApi]_vars

----------------------------------------------------------------------------
(* The page in an edit session (SpecBoard): handleAuth, the edits of the   *)
(* draft list, addTag, deleteTag, exitEditMode.                             *)

Passwords == {"pw", "wrong"}        \* what is typed into the password field

\* the stored lists the session starts from; every tag is in DEFAULT_TAGS
BoardLists ==
    { <<>>,
      <<ApiTask("1", "private", "research")>>,
      <<ApiTask("1", "private", "misc"), ApiTask("2", "secret", "research")>> }

\* the tags the delete button is pressed for
TagDeletes == {"misc", "research"}

\* POST /api/auth
AuthStatus(inputPassword) ==
    IF EDIT_PASSWORD = "" THEN 500
    ELSE IF inputPassword = EDIT_PASSWORD THEN 200
    ELSE 401

\* the password is typed and sent; on success the list is fetched with it
\* and the drafts are opened
handleAuth(typed) ==
    /\ BoardStep
    /\ ~isAuthenticated
    /\ password' = typed
    /\ IF AuthStatus(typed) = 200
       THEN LET freshPriorities == PrioritiesGET(Bearer(typed), prioritiesStore)
            IN  /\ priorities' = freshPriorities
                /\ draftPriorities' = Draft(freshPriorities)
                /\ draftFlowTasks' = Draft(flowTasks)
                /\ isAuthenticated' = TRUE
                /\ response' = Reply("/api/priorities", "GET", 200, freshPriorities)
       ELSE /\ response' = Reply("/api/auth", "POST", AuthStatus(typed), <<>>)
            /\ UNCHANGED <<priorities, draftPriorities, draftFlowTasks, isAuthenticated>>
    /\ UNCHANGED <<prioritiesStore, tagsStore, flowTasksStore, tagRequests, tags, flowTasks>>

\* The steps of handleAuth, one per await.  The password field and the Unlock
\* button are in the auth modal; the modal is opened by the Edit Mode button,
\* which is shown outside a session only, and every step that opens a session
\* closes it: the field is typed into and handleAuth is called outside a session.

MaxAuthCalls == 2                   \* calls of handleAuth waiting at an await

\* what a step of the login leaves alone
LoginStep ==
    /\ UNCHANGED boardSteps
    /\ UNCHANGED <<counterVars, flowVars, completionsStore, prunedAway, EDIT_PASSWORD,
                   prioritiesStore, tagsStore, flowTasksStore, tagRequests, tags, flowTasks,
                   completingIdsRef, completedIds, routeVars>>

\* the list without its k-th element
Removed(list, k) == SubSeq(list, 1, k - 1) \o SubSeq(list, k + 1, Len(list))

\* onChange={(e) => setPassword(e.target.value)}
typePassword(typed) ==
    /\ LoginStep
    /\ ~isAuthenticated
    /\ password' = typed
    /\ UNCHANGED <<priorities, draftPriorities, draftFlowTasks, isAuthenticated, authCalls,
                   response>>

\* handleAuth up to its first await: the request carries the password of the
\* render the handler belongs to, and the handler holds the flowTasks of it
handleAuthCalled ==
    /\ LoginStep
    /\ ~isAuthenticated
    /\ Len(authCalls) < MaxAuthCalls
    /\ authCalls' = Append(authCalls, [pc |-> "auth", password |-> password,
                                       flowTasks |-> flowTasks])
    /\ UNCHANGED <<priorities, draftPriorities, draftFlowTasks, password, isAuthenticated,
                   response>>

\* POST /api/auth answers the k-th call (delivered: the fetch does not throw):
\* with res.ok the call goes on to fetch the priorities, otherwise it ends
\* with setAuthError
AuthAnswers(k, delivered) ==
    LET call == authCalls[k]
        status == AuthStatus(call.password)
    IN  /\ LoginStep
        /\ call.pc = "auth"
        /\ authCalls' = IF delivered /\ status = 200
                         THEN [authCalls EXCEPT ![k].pc = "priorities"]
                         ELSE Removed(authCalls, k)
        /\ response' = IF delivered THEN Reply("/api/auth", "POST", status, <<>>) ELSE response
        /\ UNCHANGED <<priorities, draftPriorities, draftFlowTasks, password, isAuthenticated>>

\* GET /api/priorities answers the k-th call, and the call sets the lists, the
\* drafts and isAuthenticated (delivered: neither the fetch nor json() throws)
PrioritiesAnswers(k, delivered) ==
    LET call == authCalls[k]
        freshPriorities == PrioritiesGET(Bearer(call.password), prioritiesStore)
    IN  /\ LoginStep
        /\ call.pc = "priorities"
        /\ authCalls' = Removed(authCalls, k)
        /\ IF delivered
           THEN /\ priorities' = freshPriorities
                /\ draftPriorities' = Draft(freshPriorities)
                /\ draftFlowTasks' = Draft(call.flowTasks)
                /\ isAuthenticated' = TRUE
                /\ response' = Reply("/api/priorities", "GET", 200, freshPriorities)
           ELSE UNCHANGED <<priorities, draftPriorities, draftFlowTasks, isAuthenticated,
                            response>>
        /\ UNCHANGED password

\* variant: the draft of the flow tasks is left open when the session is closed
exitEditMode_KeepFlowDraft(tasksWritten, flowWritten) ==
    LET savedPriorities == draftPriorities
        savedFlowTasks == draftFlowTasks
        pw == password
    IN  /\ BoardStep
        /\ isAuthenticated
        /\ priorities' = IF savedPriorities.editing
                          THEN PublicView(savedPriorities.list) ELSE priorities
        /\ flowTasks' = IF savedFlowTasks.editing THEN savedFlowTasks.list ELSE flowTasks
        /\ draftPriorities' = NoDraft
        /\ draftFlowTasks' = draftFlowTasks
        /\ isAuthenticated' = FALSE
        /\ password' = ""
        /\ prioritiesStore' =
               IF savedPriorities.editing /\ MutationGate(Bearer(pw)) = 200 /\ tasksWritten
               THEN savedPriorities.list ELSE prioritiesStore
        /\ flowTasksStore' =
               IF savedFlowTasks.editing /\ MutationGate(Bearer(pw)) = 200 /\ flowWritten
               THEN savedFlowTasks.list ELSE flowTasksStore
        /\ response' = Reply("/api/flowkeeper", "POST",
                             IF MutationGate(Bearer(pw)) = 200 /\ ~flowWritten
                             THEN 500 ELSE MutationGate(Bearer(pw)), <<>>)
        /\ UNCHANGED <<tagsStore, tagRequests, tags>>

\* the drafts become the lists of the page and are posted with the password;
\* tasksWritten, flowWritten: writePriorities / writeTasks of the two POST
\* handlers succeed (otherwise the handler answers 500 from its catch)
exitEditMode(tasksWritten, flowWritten) ==
    LET savedPriorities == draftPriorities
        savedFlowTasks == draftFlowTasks
        pw == password
    IN  /\ BoardStep
        /\ isAuthenticated
        /\ priorities' = IF savedPriorities.editing
                          THEN PublicView(savedPriorities.list) ELSE priorities
        /\ flowTasks' = IF savedFlowTasks.editing THEN savedFlowTasks.list ELSE flowTasks
        /\ draftPriorities' = NoDraft
        /\ draftFlowTasks' = NoDraft
        /\ isAuthenticated' = FALSE
        /\ password' = ""
        /\ prioritiesStore' =
               IF savedPriorities.editing /\ MutationGate(Bearer(pw)) = 200 /\ tasksWritten
               THEN savedPriorities.list ELSE prioritiesStore
        /\ flowTasksStore' =
               IF savedFlowTasks.editing /\ MutationGate(Bearer(pw)) = 200 /\ flowWritten
               THEN savedFlowTasks.list ELSE flowTasksStore
        /\ response' = Reply("/api/flowkeeper", "POST",
                             IF MutationGate(Bearer(pw)) = 200 /\ ~flowWritten
                             THEN 500 ELSE MutationGate(Bearer(pw)), <<>>)
        /\ UNCHANGED <<tagsStore, tagRequests, tags>>

\* what an edit of the draft list leaves alone
DraftEdit ==
    /\ BoardStep
    /\ UNCHANGED <<prioritiesStore, tagsStore, flowTasksStore, tagRequests, response,
                   priorities, tags, flowTasks, draftFlowTasks, password, isAuthenticated>>

\* tag of newPriority
NewPriorityTag == "misc"

\* id is Date.now().toString(): the count of the run stands for the clock
addPriority ==
    LET newPriority == [id |-> ToString(100 + boardSteps), label |-> "New Priority",
                        tag |-> NewPriorityTag, risk |-> 1, urgency |-> 1, importance |-> 2]
    IN  /\ DraftEdit
        /\ draftPriorities' = IF draftPriorities.editing
                              THEN Draft(Append(draftPriorities.list, newPriority))
                              ELSE draftPriorities

\* { ...p, ...updates }
Merged(p, updates) ==
    [k \in DOMAIN p |-> IF k \in DOMAIN updates THEN updates[k] ELSE p[k]]

\* variant: the update is applied to the list of the page as well
updatePriority_Canonical(id, updates) ==
    /\ BoardStep
    /\ draftPriorities' =
           IF draftPriorities.editing
           THEN Draft([i \in 1..Len(draftPriorities.list) |->
                          IF draftPriorities.list[i].id = id
                          THEN Merged(draftPriorities.list[i], updates)
                          ELSE draftPriorities.list[i]])
           ELSE draftPriorities
    /\ priorities' = [i \in 1..Len(priorities) |->
                          IF priorities[i].id = id THEN Merged(priorities[i], updates)
                          ELSE priorities[i]]
    /\ UNCHANGED <<prioritiesStore, tagsStore, flowTasksStore, tagRequests, response,
                   tags, flowTasks, draftFlowTasks, password, isAuthenticated>>

updatePriority(id, updates) ==
    /\ DraftEdit
    /\ draftPriorities' =
           IF draftPriorities.editing
           THEN Draft([i \in 1..Len(draftPriorities.list) |->
                          IF draftPriorities.list[i].id = id
                          THEN Merged(draftPriorities.list[i], updates)
                          ELSE draftPriorities.list[i]])
           ELSE draftPriorities

\* the tag select offers the values of tags; the level selects give 1, 2, 3
PriorityUpdates ==
    { [tag |-> tags[k].value] : k \in {n \in 1..Len(tags) : tags[n].value \in TagDeletes} }
        \cup { [risk |-> 3] }

deletePriority(id) ==
    /\ DraftEdit
    /\ draftPriorities' =
           IF draftPriorities.editing
           THEN Draft(SelectSeq(draftPriorities.list, LAMBDA p : p.id # id))
           ELSE draftPriorities

\* what an edit of the draft list of flow tasks leaves alone; without a draft
\* (`if (!draftFlowTasks) return;`) the call leaves the draft alone as well
FlowDraftEdit ==
    /\ BoardStep
    /\ UNCHANGED <<prioritiesStore, tagsStore, flowTasksStore, tagRequests, response,
                   priorities, draftPriorities, tags, flowTasks, password, isAuthenticated>>

\* id is Date.now().toString(): the count of the run stands for the clock
addFlowTask ==
    LET task == [id |-> ToString(200 + boardSteps), label |-> "New task", difficulty |-> 1]
    IN  /\ FlowDraftEdit
        /\ draftFlowTasks' = IF draftFlowTasks.editing
                             THEN Draft(Append(draftFlowTasks.list, task))
                             ELSE draftFlowTasks

updateFlowTask(id, updates) ==
    /\ FlowDraftEdit
    /\ draftFlowTasks' =
           IF draftFlowTasks.editing
           THEN Draft([i \in 1..Len(draftFlowTasks.list) |->
                          IF draftFlowTasks.list[i].id = id
                          THEN Merged(draftFlowTasks.list[i], updates)
                          ELSE draftFlowTasks.list[i]])
           ELSE draftFlowTasks

\* variant: the row is deleted on the server at once
deleteFlowTask_Saving(id) ==
    /\ BoardStep
    /\ draftFlowTasks.editing
    /\ draftFlowTasks' = Draft(SelectSeq(draftFlowTasks.list, LAMBDA t : t.id # id))
    /\ FlowkeeperDELETE(Bearer(password), id)
    /\ UNCHANGED <<prioritiesStore, tagsStore, tagRequests, priorities, draftPriorities,
                   tags, flowTasks, password, isAuthenticated>>

deleteFlowTask(id) ==
    /\ FlowDraftEdit
    /\ draftFlowTasks' =
           IF draftFlowTasks.editing
           THEN Draft(SelectSeq(draftFlowTasks.list, LAMBDA t : t.id # id))
           ELSE draftFlowTasks

\* the list has a row with the id (the row carries the buttons of the task)
Listed(list, id) == \E i \in 1..Len(list) : list[i].id = id

\* draftFlowTasks ?? flowTasks
activeFlowTasks == IF draftFlowTasks.editing THEN draftFlowTasks.list ELSE flowTasks

\* POST /api/flowkeeper/complete: the stored task with the id is removed and
\* one completion with its difficulty and the time of the server is appended;
\* 404 when no stored task has the id
FlowkeeperCompletePOST(authHeader, id) ==
    LET status == MutationGate(authHeader)
        found == SelectSeq(flowTasksStore, LAMBDA t : t.id = id)
        done == status = 200 /\ found # <<>>
    IN  /\ flowTasksStore' = IF done THEN SelectSeq(flowTasksStore, LAMBDA t : t.id # id)
                                     ELSE flowTasksStore
        /\ completionsStore' =
               IF done THEN Append(completionsStore, [difficulty |-> found[1].difficulty,
                                                      completedAt |-> flowNow])
                       ELSE completionsStore
        /\ response' = Reply("/api/flowkeeper/complete", "POST",
                             IF status = 200 /\ found = <<>> THEN 404 ELSE status, <<>>)

\* variant: the task is looked up in the list of the page outside the session
FindTask_Canonical(id) == SelectSeq(flowTasks, LAMBDA t : t.id = id)

\* allTasks.find(t => t.id === id), as a list with the task or an empty list
FindTask(id) == SelectSeq(activeFlowTasks, LAMBDA t : t.id = id)

\* the ids with a completion in flight
Completing == { c.id : c \in completingIdsRef }

\* a second call for an id whose completion is in flight returns at once;
\* otherwise the task leaves the lists of the page, its completion is appended
\* at once and the request is sent
completeFlowTask(id) ==
    LET found == FindTask(id)
        newCompletion == [difficulty |-> found[1].difficulty, completedAt |-> flowNow]
        updated == Append(flowCompletions, newCompletion)
    IN  /\ boardSteps < MaxBoardSteps
        /\ boardSteps' = boardSteps + 1
        /\ IF id \in Completing
           THEN UNCHANGED <<draftFlowTasks, flowTasks, flowCompletions, flowPercent,
                            completingIdsRef, completedIds>>
           ELSE /\ completingIdsRef' =
                       completingIdsRef \cup {[id |-> id, authHeader |-> Bearer(password)]}
                /\ draftFlowTasks' =
                       IF draftFlowTasks.editing
                       THEN Draft(SelectSeq(draftFlowTasks.list, LAMBDA t : t.id # id))
                       ELSE draftFlowTasks
                /\ flowTasks' = SelectSeq(flowTasks, LAMBDA t : t.id # id)
                /\ IF found # <<>>
                   THEN /\ flowCompletions' = updated
                        /\ flowPercent' = calculateFlowPercent(updated, flowNow)
                        /\ completedIds' = Append(completedIds, id)
                   ELSE UNCHANGED <<flowCompletions, flowPercent, completedIds>>
        /\ UNCHANGED <<counterVars, flowNow, completionsStore, prunedAway, serverVars,
                       priorities, draftPriorities, tags, password, isAuthenticated,
                       authCalls, routeVars>>

\* the request of a completion in flight is answered; the finally block
\* takes the id out of completingIdsRef
CompleteReturns ==
    \E c \in completingIdsRef :
        /\ boardSteps < MaxBoardSteps
        /\ boardSteps' = boardSteps + 1
        /\ FlowkeeperCompletePOST(c.authHeader, c.id)
        /\ completingIdsRef' = completingIdsRef \ {c}
        /\ UNCHANGED <<counterVars, flowVars, prunedAway, flowTasks, EDIT_PASSWORD,
                       prioritiesStore, tagsStore, tagRequests, priorities, draftPriorities,
                       tags, draftFlowTasks, password, isAuthenticated, authCalls,
                       completedIds, routeVars>>

\* GET /api/tags and setTags
fetchTags ==
    /\ BoardStep
    /\ tags' = tagsStore
    /\ response' = Reply("/api/tags", "GET", 200, tagsStore)
    /\ UNCHANGED <<prioritiesStore, tagsStore, flowTasksStore, tagRequests, flowTasks,
                   priorities, draftPriorities, draftFlowTasks, password, isAuthenticated>>

\* the tag is sent with the password of the page; the modal is open in a session
addTag(value, label) ==
    /\ BoardStep
    /\ isAuthenticated
    /\ label # ""
    /\ TagsPOSTRead(Bearer(password), value, label, TRUE)
    /\ UNCHANGED <<prioritiesStore, tagsStore, flowTasksStore, flowTasks,
                   priorities, draftPriorities, tags, draftFlowTasks, password,
                   isAuthenticated>>

\* activePriorities.some(p => p.tag === tagValue)
InUse(tagValue) ==
    \E i \in 1..Len(activePriorities) : activePriorities[i].tag = tagValue

deleteTag(tagValue) ==
    /\ BoardStep
    /\ isAuthenticated
    /\ IF InUse(tagValue)
       THEN UNCHANGED <<tagRequests, response>>
       ELSE TagsDELETERead(Bearer(password), tagValue, TRUE)
    /\ UNCHANGED <<prioritiesStore, tagsStore, flowTasksStore, flowTasks,
                   priorities, draftPriorities, tags, draftFlowTasks, password,
                   isAuthenticated>>

InitBoard ==
    /\ FlowIdle
    /\ KeeperIdle
    /\ RouteIdle
    /\ PageLoaded([tokens |-> NoItem, lines |-> NoItem], 0, 0, 0)
    /\ polls = 0 /\ reloads = 0 /\ peakTokens = 0
    /\ ClientIdle
    /\ EDIT_PASSWORD = "pw"
    /\ prioritiesStore \in BoardLists
    /\ tagsStore = DEFAULT_TAGS
    /\ flowTasksStore \in ApiFlowLists

NextBoard ==
    \/ FetchPriorities
    \/ fetchTags
    \/ \E typed \in Passwords : handleAuth(typed)
    \/ \E tasksWritten, flowWritten \in BOOLEAN : exitEditMode(tasksWritten, flowWritten)
    \/ addPriority
    \/ \E i \in 1..Len(draftPriorities.list) : \E updates \in PriorityUpdates :
           updatePriority(draftPriorities.list[i].id, updates)
    \/ \E i \in 1..Len(draftPriorities.list) : deletePriority(draftPriorities.list[i].id)
    \/ \E in \in ApiTagInputs : addTag(in[1], in[2])
    \/ \E tagValue \in TagDeletes : deleteTag(tagValue)
    \/ TagsWritten

SpecBoard == InitBoard /\ [][NextBoard]_vars

\* ids of the stored priorities and of the first one added in a session
PriorityIds == {"1", "2", "101"}

\* the ids the complete button and the row buttons are pressed for
FlowIds == {"f1", "201", "202"}

\* the page is opened at one of the start times and its mount effect, the
\* only caller of fetchFlowkeeper, has fetched the flow tasks
InitSession ==
    /\ flowCompletions = <<>> /\ flowPercent = 0 /\ flowNow \in FlowStarts
    /\ KeeperIdle
    /\ RouteIdle
    /\ PageLoaded([tokens |-> NoItem, lines |-> NoItem], 0, 0, 0)
    /\ polls = 0 /\ reloads = 0 /\ peakTokens = 0
    /\ priorities = <<>> /\ draftPriorities = NoDraft /\ tags = <<>>
    /\ draftFlowTasks = NoDraft /\ password = "" /\ isAuthenticated = FALSE
    /\ completingIdsRef = {} /\ authCalls = <<>> /\ completedIds = <<>>
    /\ tagRequests = <<>> /\ response = NoResponse
    /\ boardSteps = 0
    /\ EDIT_PASSWORD = "pw"
    /\ prioritiesStore \in BoardLists
    /\ tagsStore = DEFAULT_TAGS
    /\ flowTasksStore \in ApiFlowLists
    /\ flowTasks = flowTasksStore

\* an edit session over the two task lists
NextSession ==
    \/ handleAuth("pw")
    \/ \E tasksWritten, flowWritten \in BOOLEAN : exitEditMode(tasksWritten, flowWritten)
    \/ addPriority
    \/ \E id \in PriorityIds : updatePriority(id, [risk |-> 3])
    \/ \E id \in PriorityIds : deletePriority(id)
    \/ addFlowTask
    \/ \E id \in FlowIds : updateFlowTask(id, [difficulty |-> 3])
    \/ \E id \in FlowIds : deleteFlowTask(id)
    \/ \E id \in FlowIds :
           /\ isAuthenticated
           /\ Listed(activeFlowTasks, id) \/ id \in Completing
           /\ completeFlowTask(id)
    \/ CompleteReturns

SpecSession == InitSession /\ [][NextSession]_vars

\* the page of InitSession over one stored task and one stored flow task
InitLogin ==
    /\ InitSession
    /\ flowNow = 0
    /\ Len(prioritiesStore) = 1
    /\ Len(flowTasksStore) = 1

\* the login taken step by step, with the password field, calls of handleAuth
\* that overlap, and the operations of a session
NextLogin ==
    \/ \E typed \in Passwords : typePassword(typed)
    \/ handleAuthCalled
    \/ \E k \in DOMAIN authCalls : \E delivered \in BOOLEAN : AuthAnswers(k, delivered)
    \/ \E k \in DOMAIN authCalls : \E delivered \in BOOLEAN : PrioritiesAnswers(k, delivered)
    \/ \E tasksWritten, flowWritten \in BOOLEAN : exitEditMode(tasksWritten, flowWritten)
    \/ addPriority
    \/ deletePriority("1")
    \/ addFlowTask
    \/ deleteFlowTask("f1")
    \/ /\ isAuthenticated
       /\ Listed(activeFlowTasks, "f1") \/ "f1" \in Completing
       /\ completeFlowTask("f1")
    \/ CompleteReturns

SpecLogin == InitLogin /\ [][NextLogin]_vars

----------------------------------------------------------------------------
(***************************************************************************)
(* The usage route (src/app/api/cursor-usage/route.ts): GET answers from   *)
(* the stored totals and refreshFromCursorAPI rebuilds them from the       *)
(* Cursor API.  memoryCache stands for what readUsage() returns: the       *)
(* module variable when it is set, else the stored file, else null         *)
(* (NoStored); writeUsage sets it before it touches the file.  Totals are  *)
(* counted in millions of tokens and Date.now() (flowNow) in minutes.      *)
(* A handler is cut at its awaits: a GET that awaits the refresh it        *)
(* started is "awaiting" until RefreshDone, and a GET whose await came     *)
(* back is at "reread" until it calls readUsage() again.                   *)
(***************************************************************************)
TOKEN_BASELINE == 21000
REFRESH_INTERVAL == HOUR

MaxUsageGets == 2                   \* GET requests of /api/cursor-usage in one run

\* what readUsage() finds when the process starts
StoredAtStart ==
    {NoStored, [tokens |-> TOKEN_BASELINE + 5, linesOfCode |-> 30, fetchedAt |-> 0]}

\* totals the Cursor API adds up to in one refresh (all zero when every call fails)
UpstreamUsage == {[tokens |-> 0, lines |-> 0], [tokens |-> 7, lines |-> 40]}

\* the body of the fallback response
Baseline == [tokens |-> TOKEN_BASELINE, linesOfCode |-> 0, fetchedAt |-> 0]

\* the refresh in progress, as an index of refreshCalls (0: none)
InFlight == IF refreshInProgress THEN Len(refreshCalls) ELSE 0

\* refreshFromCursorAPI up to its first await
refreshFromCursorAPI ==
    IF ~refreshInProgress /\ CURSOR_API_KEY # ""
    THEN /\ refreshInProgress' = TRUE
         /\ refreshCalls' = Append(refreshCalls, [done |-> FALSE, result |-> NoStored])
    ELSE UNCHANGED <<refreshInProgress, refreshCalls>>

\* GET /api/cursor-usage up to its response or its first await
UsageGET(fresh) ==
    /\ Len(usageGets) < MaxUsageGets
    /\ LET stored == memoryCache
           get == [fresh |-> fresh, pc |-> "done", joined |-> 0, awaits |-> 0,
                   answer |-> NoStored]
       IN  IF stored # NoStored /\ ~fresh
           THEN /\ IF flowNow - stored.fetchedAt > REFRESH_INTERVAL
                   THEN refreshFromCursorAPI
                   ELSE UNCHANGED <<refreshInProgress, refreshCalls>>
                /\ usageGets' = Append(usageGets, [get EXCEPT !.answer = stored])
           ELSE IF CURSOR_API_KEY # ""
           THEN /\ refreshFromCursorAPI
                /\ usageGets' = Append(usageGets,
                       IF refreshCalls' = refreshCalls
                       THEN [get EXCEPT !.pc = "reread", !.joined = InFlight]
                       ELSE [get EXCEPT !.pc = "awaiting", !.joined = InFlight,
                                        !.awaits = Len(refreshCalls')])
           ELSE /\ usageGets' = Append(usageGets, [get EXCEPT !.answer = Baseline])
                /\ UNCHANGED <<refreshInProgress, refreshCalls>>
    /\ UNCHANGED <<CURSOR_API_KEY, memoryCache, helperCalls, keeperCalls>>
    /\ UNCHANGED <<counterVars, flowVars, keeperVars, serverVars, clientVars, boardSteps>>

\* the end of refreshFromCursorAPI: writeUsage(result), then the finally block
RefreshDone ==
    \E k \in DOMAIN refreshCalls, u \in UpstreamUsage :
        /\ ~refreshCalls[k].done
        /\ LET result == [tokens |-> u.tokens + TOKEN_BASELINE, linesOfCode |-> u.lines,
                          fetchedAt |-> flowNow]
           IN  /\ memoryCache' = result
               /\ refreshCalls' = [refreshCalls EXCEPT ![k] = [done |-> TRUE, result |-> result]]
        /\ refreshInProgress' = FALSE
        /\ usageGets' = [i \in DOMAIN usageGets |->
               IF usageGets[i].pc = "awaiting" /\ usageGets[i].awaits = k
               THEN [usageGets[i] EXCEPT !.pc = "reread"]
               ELSE usageGets[i]]
        /\ UNCHANGED <<CURSOR_API_KEY, helperCalls, keeperCalls>>
        /\ UNCHANGED <<counterVars, flowVars, keeperVars, serverVars, clientVars, boardSteps>>

\* GET after `await refreshFromCursorAPI()`: readUsage() again, then the response
UsageReread ==
    \E i \in DOMAIN usageGets :
        /\ usageGets[i].pc = "reread"
        /\ usageGets' = [usageGets EXCEPT ![i] =
               [@ EXCEPT !.pc = "done",
                         !.answer = IF memoryCache # NoStored THEN memoryCache ELSE Baseline]]
        /\ UNCHANGED <<CURSOR_API_KEY, refreshInProgress, memoryCache, refreshCalls,
                       helperCalls, keeperCalls>>
        /\ UNCHANGED <<counterVars, flowVars, keeperVars, serverVars, clientVars, boardSteps>>

InitRefresh ==
    /\ flowCompletions = <<>> /\ flowPercent = 0 /\ flowNow \in FlowStarts
    /\ KeeperIdle
    /\ PageLoaded([tokens |-> NoItem, lines |-> NoItem], 0, 0, 0)
    /\ polls = 0 /\ reloads = 0 /\ peakTokens = 0
    /\ ServerIdle /\ ClientIdle
    /\ CURSOR_API_KEY \in {"", "key"}
    /\ refreshInProgress = FALSE
    /\ memoryCache \in StoredAtStart
    /\ refreshCalls = <<>> /\ usageGets = <<>>
    /\ helperCalls = [h \in {} |-> NoCall]
    /\ keeperCalls = <<>>

\* requests to the usage route while the clock runs
NextRefresh ==
    \/ \E fresh \in BOOLEAN : UsageGET(fresh)
    \/ RefreshDone
    \/ UsageReread
    \/ FlowClock

SpecRefresh == InitRefresh /\ [][NextRefresh]_vars

----------------------------------------------------------------------------
(***************************************************************************)
(* The upstream fetch helpers: fetchDailyUsage and fetchUsageEventsPage    *)
(* (src/app/api/cursor-usage/route.ts) and fetchAnthropicUsage             *)
(* (src/unnamed/part_003).  A call is cut at its awaits: it is at "fetch"  *)
(* while its request is out, at "sleep" while its timer runs, and          *)
(* "returned" when its promise has settled.  The upstream chooses the      *)
(* status of every answer; a request that throws is answered like a        *)
(* failure status.  ANTHROPIC_ADMIN_KEY is set.                            *)
(***************************************************************************)
Helpers == {"fetchDailyUsage", "fetchUsageEventsPage", "fetchAnthropicUsage"}
Statuses == {200, 429, 500}

MaxPages == 2                       \* pages of one Anthropic usage report

\* the default of the parameter `retries`
DefaultRetries == 2

\* the call of a helper, up to `await fetch(...)`
HelperCall(h) ==
    /\ helperCalls[h].pc = "idle"
    /\ helperCalls' = [helperCalls EXCEPT ![h] =
           [pc |-> "fetch",
            retries |-> IF h = "fetchAnthropicUsage" THEN 0 ELSE DefaultRetries,
            pages |-> 0]]

\* the answer to the request of fetchDailyUsage or fetchUsageEventsPage
CursorAnswer(call, status) ==
    IF status = 429 /\ call.retries > 0
    THEN [call EXCEPT !.pc = "sleep", !.retries = call.retries - 1]
    ELSE [call EXCEPT !.pc = "returned"]

\* the answer to the request of fetchAnthropicUsage; has_more is the upstream's
AnthropicAnswer(call, status, has_more) ==
    IF status = 429 THEN [call EXCEPT !.pc = "sleep"]
    ELSE IF status # 200 THEN [call EXCEPT !.pc = "returned"]
    ELSE IF ~has_more THEN [call EXCEPT !.pc = "returned"]
    ELSE [call EXCEPT !.pc = "sleep", !.pages = call.pages + 1]

\* the request of a helper is answered
HelperAnswer(h) ==
    /\ helperCalls[h].pc = "fetch"
    /\ \E status \in Statuses, has_more \in BOOLEAN :
           /\ has_more => helperCalls[h].pages + 1 < MaxPages
           /\ helperCalls' = [helperCalls EXCEPT ![h] =
                  IF h = "fetchAnthropicUsage"
                  THEN AnthropicAnswer(helperCalls[h], status, has_more)
                  ELSE CursorAnswer(helperCalls[h], status)]

\* sleep(5000) or sleep(500) is over: the next request goes out
HelperWake(h) ==
    /\ helperCalls[h].pc = "sleep"
    /\ helperCalls' = [helperCalls EXCEPT ![h].pc = "fetch"]

\* a step of the event loop for one call
HelperStep(h) ==
    /\ HelperAnswer(h) \/ HelperWake(h)
    /\ UNCHANGED <<CURSOR_API_KEY, refreshInProgress, memoryCache, refreshCalls, usageGets,
                   keeperCalls>>
    /\ UNCHANGED <<counterVars, flowVars, keeperVars, serverVars, clientVars, boardSteps>>

InitFetch ==
    /\ FlowIdle
    /\ KeeperIdle
    /\ PageLoaded([tokens |-> NoItem, lines |-> NoItem], 0, 0, 0)
    /\ polls = 0 /\ reloads = 0 /\ peakTokens = 0
    /\ ServerIdle /\ ClientIdle
    /\ CURSOR_API_KEY = "key"
    /\ refreshInProgress = FALSE /\ memoryCache = NoStored
    /\ refreshCalls = <<>> /\ usageGets = <<>>
    /\ helperCalls = [h \in Helpers |-> NoCall]
    /\ keeperCalls = <<>>

\* the three helpers, each called once, against an upstream that answers as it likes
NextFetch ==
    \/ \E h \in Helpers :
           /\ HelperCall(h)
           /\ UNCHANGED <<CURSOR_API_KEY, refreshInProgress, memoryCache, refreshCalls,
                          usageGets, keeperCalls>>
           /\ UNCHANGED <<counterVars, flowVars, keeperVars, serverVars, clientVars,
                          boardSteps>>
    \/ \E h \in Helpers : HelperStep(h)

\* every request is answered and every timer fires
SpecFetch == InitFetch /\ [][NextFetch]_vars /\ \A h \in Helpers : WF_vars(HelperStep(h))

----------------------------------------------------------------------------
(***************************************************************************)
(* GET /api/flowkeeper on the server alone (src/unnamed/part_002), cut at  *)
(* the write back it does not await: keeperCalls holds the pruned lists    *)
(* whose writeCompletions() has not reached the store yet.  Completions    *)
(* are appended to the same store by POST /api/flowkeeper/complete.        *)
(***************************************************************************)
MaxWriteBacks == 2                  \* write backs of GET /api/flowkeeper under way

\* GET up to its response: the stored list is read and pruned, and the write
\* back is started when something was pruned
KeeperGET ==
    LET rawCompletions == completionsStore
        completions == pruneExpired(rawCompletions, flowNow)
    IN  /\ Len(keeperCalls) < MaxWriteBacks
        /\ keeperCalls' = IF Len(completions) # Len(rawCompletions)
                          THEN Append(keeperCalls, completions)
                          ELSE keeperCalls
        /\ response' = Reply("/api/flowkeeper", "GET", 200, completions)
        /\ UNCHANGED <<EDIT_PASSWORD, prioritiesStore, tagsStore, flowTasksStore, tagRequests>>
        /\ UNCHANGED <<CURSOR_API_KEY, refreshInProgress, memoryCache, refreshCalls,
                       usageGets, helperCalls>>
        /\ UNCHANGED <<counterVars, flowVars, keeperVars, clientVars, boardSteps>>

\* writeCompletions(completions) of a GET reaches the store, or fails unnoticed
KeeperWriteBack ==
    \E i \in DOMAIN keeperCalls, written \in BOOLEAN :
        /\ completionsStore' = IF written THEN keeperCalls[i] ELSE completionsStore
        /\ keeperCalls' = SubSeq(keeperCalls, 1, i - 1)
                              \o SubSeq(keeperCalls, i + 1, Len(keeperCalls))
        /\ UNCHANGED <<flowTasks, prunedAway>>
        /\ UNCHANGED <<CURSOR_API_KEY, refreshInProgress, memoryCache, refreshCalls,
                       usageGets, helperCalls>>
        /\ UNCHANGED <<counterVars, flowVars, serverVars, clientVars, boardSteps>>

\* a completion request of an editor reaches the server
KeeperComplete ==
    \E i \in DOMAIN flowTasksStore :
        /\ FlowkeeperCompletePOST(Bearer(EDIT_PASSWORD), flowTasksStore[i].id)
        /\ UNCHANGED <<EDIT_PASSWORD, prioritiesStore, tagsStore, tagRequests>>
        /\ UNCHANGED <<flowTasks, prunedAway>>
        /\ UNCHANGED <<counterVars, flowVars, clientVars, boardSteps, routeVars>>

InitRace ==
    /\ flowCompletions = <<>> /\ flowPercent = 0 /\ flowNow \in FlowStarts
    /\ PageLoaded([tokens |-> NoItem, lines |-> NoItem], 0, 0, 0)
    /\ polls = 0 /\ reloads = 0 /\ peakTokens = 0
    /\ ClientIdle
    /\ RouteIdle
    /\ EDIT_PASSWORD = "pw"
    /\ prioritiesStore = <<>>
    /\ tagsStore = DEFAULT_TAGS
    /\ flowTasksStore \in ApiFlowLists
    /\ completionsStore \in KeeperStores
    /\ prunedAway = <<>>

\* readers and an editor at the flowkeeper store while the clock runs
NextRace == KeeperGET \/ KeeperWriteBack \/ KeeperComplete \/ FlowClock

SpecRace == InitRace /\ [][NextRace]_vars

----------------------------------------------------------------------------
(* Properties of the pruning of completions (SpecKeeper) *)

\* the completions of the list made less than seven days (10080 minutes) ago
YoungerThanAWeek(completions, now) ==
    SelectSeq(completions, LAMBDA c : now - c.completedAt < 7 * 24 * 60)

\* C12: pruning does not change the flow value: at every time, flowPercent of
\* the stored list without its completions aged 7 days or more equals
\* flowPercent of the whole list; pruneExpired removes exactly those, each of
\* them contributes 0, and the meter set by a GET shows the value of the
\* unpruned list.
C12_PruningKeepsFlow ==
    [][/\ \A d \in LaterTimes :
              LET now == flowNow + d
                  kept == pruneExpired(completionsStore, now)
              IN  /\ kept = YoungerThanAWeek(completionsStore, now)
                  /\ calculateFlowPercent(kept, now) = calculateFlowPercent(completionsStore, now)
                  /\ \A i \in 1..Len(completionsStore) :
                         (\A j \in 1..Len(kept) : kept[j] # completionsStore[i])
                             => FlowContribution(completionsStore[i], now) = 0
       /\ \A i \in 1..Len(prunedAway) : FlowContribution(prunedAway[i], flowNow) = 0
       /\ FlowkeeperGET =>
              flowPercent' = calculateFlowPercent(completionsStore, flowNow)]_vars

\* a GET has left out a completion of the store while another one is still on the meter
C12_Witness ==
    /\ prunedAway # <<>>
    /\ flowCompletions # <<>>
    /\ flowPercent > 0

----------------------------------------------------------------------------
(* Properties of the attention meter (SpecMeter) *)

\* the table of the documentation, in tenths: Low 0.5, Medium 1.5, High 3.0
DocW(level) == CASE level = 1 -> 5 [] level = 2 -> 15 [] level = 3 -> 30

Levels == {1, 2, 3}

\* C13: for risk, urgency, importance in {1,2,3} the weight of a task is
\* W(risk) + W(urgency) + W(importance) with W = 0.5, 1.5, 3.0; it lies in
\* [1.5, 9.0], is 1.5 only for (1,1,1) and 9.0 only for (3,3,3).
C13_WeightIsSumOfLevels ==
    /\ \A r \in Levels : \A u \in Levels : \A i \in Levels :
           LET w == calculateWeight([risk |-> r, urgency |-> u, importance |-> i])
           IN  /\ w = DocW(r) + DocW(u) + DocW(i)
               /\ 15 <= w /\ w <= 90
               /\ w = 15 <=> (r = 1 /\ u = 1 /\ i = 1)
               /\ w = 90 <=> (r = 3 /\ u = 3 /\ i = 3)
    /\ \A k \in 1..Len(activePriorities) :
           LET p == activePriorities[k]
           IN  calculateWeight(p) = DocW(p.risk) + DocW(p.urgency) + DocW(p.importance)

\* the fetched list holds a task of the least weight and one of the greatest
C13_Witness ==
    /\ response.route = "/api/priorities"
    /\ \E k \in 1..Len(priorities) : calculateWeight(priorities[k]) = 15
    /\ \E k \in 1..Len(priorities) : calculateWeight(priorities[k]) = 90

\* the sum of the weights, taken from the end of the list
RECURSIVE DocLoad(_)
DocLoad(list) ==
    IF list = <<>> THEN 0
    ELSE DocW(Head(list).risk) + DocW(Head(list).urgency) + DocW(Head(list).importance)
             + DocLoad(Tail(list))

\* the list with the tasks at i and j exchanged
Swapped(list, i, j) ==
    [k \in 1..Len(list) |-> IF k = i THEN list[j] ELSE IF k = j THEN list[i] ELSE list[k]]

\* C14: the load is the sum of the weights of the tasks, 0 for the empty
\* list, and the same (as is the mood) when two tasks of the list change
\* places, hence for every permutation of the list.
C14_LoadIsOrderIndependentSum ==
    /\ effectiveLoad = DocLoad(activePriorities)
    /\ activePriorities = <<>> => effectiveLoad = 0
    /\ calculateEffectiveLoad(<<>>) = 0
    /\ \A i \in 1..Len(activePriorities) : \A j \in 1..Len(activePriorities) :
           /\ calculateEffectiveLoad(Swapped(activePriorities, i, j)) = effectiveLoad
           /\ calculateMood(Swapped(activePriorities, i, j)) = mood

\* the fetched list has tasks of different weights at its two ends
C14_Witness ==
    /\ response.route = "/api/priorities"
    /\ Len(priorities) >= 3
    /\ calculateWeight(priorities[1]) # calculateWeight(priorities[Len(priorities)])
    /\ effectiveLoad > 0

\* C15: the mood is calm iff load < 15, busy iff 15 <= load < 35, stress iff
\* load >= 35; a list of one task is calm whatever its levels.
C15_MoodBands ==
    /\ mood = "calm" <=> effectiveLoad < 150
    /\ mood = "busy" <=> (150 <= effectiveLoad /\ effectiveLoad < 350)
    /\ mood = "stress" <=> effectiveLoad >= 350
    /\ Len(activePriorities) = 1 => mood = "calm"
    /\ \A r \in Levels : \A u \in Levels : \A i \in Levels :
           calculateMood(<<[risk |-> r, urgency |-> u, importance |-> i]>>) = "calm"

\* the fetched list weighs exactly 35 and the mood is stress
C15_Witness ==
    /\ response.route = "/api/priorities"
    /\ effectiveLoad = 350
    /\ mood = "stress"

----------------------------------------------------------------------------
(* Properties of the endpoints (SpecApi) *)

\* the header is 'Bearer <configured password>' and a password is configured
Credential(h) == EDIT_PASSWORD # "" /\ h = "Bearer " \o EDIT_PASSWORD

\* the stored list with other labels
Relabelled(list, labels) ==
    [i \in 1..Len(list) |-> [list[i] EXCEPT !.label = labels[i]]]

\* the list has the tasks of the stored list, in order, without any label field
IsLabelFree(list, stored) ==
    /\ Len(list) = Len(stored)
    /\ \A i \in 1..Len(list) :
           /\ DOMAIN list[i] = {"id", "tag", "risk", "urgency", "importance"}
           /\ list[i].id = stored[i].id /\ list[i].tag = stored[i].tag
           /\ list[i].risk = stored[i].risk /\ list[i].urgency = stored[i].urgency
           /\ list[i].importance = stored[i].importance

\* C16: a read of the task list without the correct bearer credential (no
\* header, a wrong password, no password configured) returns every task
\* without a label field, and the answer is the same for every store that
\* differs from this one only in its labels.
C16_PublicReadHasNoLabels ==
    [][/\ \A h \in Headers :
              ~Credential(h) =>
                  /\ IsLabelFree(PrioritiesGET(h, prioritiesStore), prioritiesStore)
                  /\ \A labels \in [1..Len(prioritiesStore) -> ApiLabels] :
                         PrioritiesGET(h, Relabelled(prioritiesStore, labels))
                             = PrioritiesGET(h, prioritiesStore)
                  /\ GetPriorities(h) => IsLabelFree(response'.body, prioritiesStore)
       /\ FetchPriorities =>
              /\ IsLabelFree(priorities', prioritiesStore)
              /\ IsLabelFree(response'.body, prioritiesStore)]_vars

\* a read has answered with the two stored tasks, none of them with its label
C16_Witness ==
    /\ response.route = "/api/priorities" /\ response.method = "GET"
    /\ Len(prioritiesStore) = 2
    /\ \A i \in 1..2 : prioritiesStore[i].label \in ApiLabels
    /\ IsLabelFree(response.body, prioritiesStore)

\* the request was turned down: no document changed, no write is waiting
Rejected ==
    /\ UNCHANGED <<prioritiesStore, tagsStore, flowTasksStore, tagRequests>>
    /\ response'.status \in {401, 500}

\* C17: no mutation endpoint (priorities, tags, flowkeeper; POST and DELETE)
\* writes to its store unless the request carries 'Bearer <configured
\* password>': without the header, with another one, or with no password
\* configured the answer is an error status and the stored documents are as
\* they were; a document changes only on a server with a password.
C17_MutationsNeedCredential ==
    [][/\ \A h \in Headers :
              ~Credential(h) =>
                  /\ \A body \in ApiLists : PostPriorities(h, body) => Rejected
                  /\ \A id \in {"1", "2"} : DeletePriorities(h, id) => Rejected
                  /\ \A body \in ApiFlowLists : PostFlowkeeper(h, body) => Rejected
                  /\ DeleteFlowkeeper(h, "f1") => Rejected
                  /\ \A in \in ApiTagInputs : PostTags(h, in[1], in[2]) => Rejected
                  /\ \A value \in ApiTagValues : DeleteTags(h, value) => Rejected
       /\ \A k \in 1..Len(tagRequests) : Credential(tagRequests[k].authHeader)
       /\ (\/ prioritiesStore' # prioritiesStore
           \/ tagsStore' # tagsStore
           \/ flowTasksStore' # flowTasksStore) => EDIT_PASSWORD # ""]_vars

\* a DELETE with a wrong header was answered 401 and the two tasks are still stored
C17_Witness ==
    /\ response = Reply("/api/priorities", "DELETE", 401, <<>>)
    /\ EDIT_PASSWORD = "pw"
    /\ Len(prioritiesStore) = 2

----------------------------------------------------------------------------
(* Properties of the tag catalog in an edit session (SpecBoard) *)

\* a task of the stored list or of the list the page shows carries the tag
Referenced(tagValue) ==
    \/ \E i \in 1..Len(prioritiesStore) : prioritiesStore[i].tag = tagValue
    \/ \E i \in 1..Len(activePriorities) : activePriorities[i].tag = tagValue

Without(list, tagValue) == SelectSeq(list, LAMBDA t : t.value # tagValue)

\* the step is the write of an accepted request for the tag
WritesTag(method, tagValue) ==
    \E k \in 1..Len(tagRequests) :
        /\ tagRequests[k].method = method
        /\ tagRequests[k].value = tagValue
        /\ TagsWrite(k)

\* C18: deleting a tag that at least one task references is rejected and
\* leaves the catalog as it is; the accepted deletion of an unreferenced tag
\* takes exactly that entry out of the catalog, and the entry stays out for
\* every later loadTags (until the tag is added again).
C18_TagDeletion ==
    [][ /\ \A tagValue \in TagDeletes :
              (deleteTag(tagValue) /\ Referenced(tagValue)) =>
                  (tagRequests' = tagRequests /\ tagsStore' = tagsStore)
        /\ \A tagValue \in TagDeletes :
              WritesTag("DELETE", tagValue) => tagsStore' = Without(tagsStore, tagValue)
        /\ \A tagValue \in TagDeletes :
              (~TagExists(tagsStore, tagValue) /\ ~WritesTag("POST", tagValue)) =>
                  ~TagExists(tagsStore', tagValue)
      ]_vars

Unique(list) ==
    \A i, j \in 1..Len(list) : list[i].value = list[j].value => i = j

\* C19: the values of the stored catalog stay pairwise different under every
\* order of the reads and writes of addTag and deleteTag requests, and an
\* addTag whose value the catalog already holds is answered with an error and
\* changes neither the catalog nor the requests waiting to write.
C19_TagValuesUnique ==
    /\ [](Unique(tagsStore) /\ \A k \in 1..Len(tagRequests) : Unique(tagRequests[k].tags))
    /\ [][ \A in \in ApiTagInputs :
              (addTag(in[1], in[2]) /\ TagExists(tagsStore, in[1])) =>
                  /\ response'.status = 400
                  /\ tagsStore' = tagsStore
                  /\ tagRequests' = tagRequests
         ]_vars

\* "deep" was added by a request that waited for its write, and an addTag of
\* a value of the catalog has just been turned down
C19_Witness ==
    /\ response = Reply("/api/tags", "POST", 400, <<>>)
    /\ TagExists(tagsStore, "deep")
    /\ Len(tagsStore) = Len(DEFAULT_TAGS) + 1

\* C20: in an edit session, whatever addPriority, updatePriority,
\* deletePriority, addTag and deleteTag do, every task of the active list has
\* a tag that is the value of an entry of the catalog.
C20_ActiveTagsInCatalog ==
    isAuthenticated =>
        \A i \in 1..Len(activePriorities) : TagExists(tagsStore, activePriorities[i].tag)

----------------------------------------------------------------------------
(* Properties of the edit session over the task lists (SpecSession) *)

Exits == \E tasksWritten, flowWritten \in BOOLEAN : exitEditMode(tasksWritten, flowWritten)

\* the answer is that of a replacement of the task list or of the flow-task list
SaveReply(r) ==
    r.route \in {"/api/priorities", "/api/flowkeeper"} /\ r.method \in {"POST", "DELETE"}

\* C21: only exitEditMode sends a save of the task list or of the flow-task
\* list: a step in which the server receives one is an exitEditMode step (the
\* stored flow-task list is otherwise touched only by the completion of a
\* task), and addPriority, updatePriority, deletePriority, addFlowTask,
\* updateFlowTask, deleteFlowTask leave the stored lists and the last answer
\* of the server as they are.
C21_OnlyExitSaves ==
    [][ /\ (prioritiesStore' # prioritiesStore \/ (response' # response /\ SaveReply(response')))
              => Exits
        /\ flowTasksStore' # flowTasksStore
              => (Exits \/ CompleteReturns)
        /\ ( \/ addPriority
             \/ \E i \in 1..Len(draftPriorities.list) :
                    \/ updatePriority(draftPriorities.list[i].id, [risk |-> 3])
                    \/ deletePriority(draftPriorities.list[i].id)
             \/ addFlowTask
             \/ \E id \in FlowIds : updateFlowTask(id, [difficulty |-> 3]) \/ deleteFlowTask(id) )
              => UNCHANGED <<prioritiesStore, flowTasksStore, response>>
      ]_vars

\* both drafts have grown beyond the stored lists, and the last
\* answer of the server is still the list fetched by handleAuth
C21_Witness ==
    /\ isAuthenticated
    /\ Len(draftPriorities.list) > Len(prioritiesStore)
    /\ Len(draftFlowTasks.list) > Len(flowTasksStore)
    /\ response.route = "/api/priorities" /\ response.method = "GET"

\* C22: when exitEditMode has finished, either both drafts are stored on the
\* server and shown by the page, or neither is stored and the lists of the
\* page are the ones it showed before (the private labels apart, which the
\* page drops when the session ends); the page never shows a list that the
\* server does not store.
C22_ExitIsAllOrNothing ==
    [][ \A tasksWritten, flowWritten \in BOOLEAN :
            exitEditMode(tasksWritten, flowWritten) =>
                \/ /\ prioritiesStore' = draftPriorities.list
                   /\ flowTasksStore' = draftFlowTasks.list
                   /\ priorities' = PublicView(draftPriorities.list)
                   /\ flowTasks' = draftFlowTasks.list
                \/ /\ UNCHANGED <<prioritiesStore, flowTasksStore, flowTasks>>
                   /\ PublicView(priorities') = PublicView(priorities)
      ]_vars

WithoutId(list, id) == SelectSeq(list, LAMBDA t : t.id # id)

----------------------------------------------------------------------------
(* Properties of the usage route (SpecRefresh) *)

\* C24: at most one refreshFromCursorAPI is in progress at any time, and a GET
\* that needs refreshed totals and arrives while a refresh is in flight answers
\* with the result of that refresh
C24_RefreshIsSingleFlight ==
    /\ Cardinality({k \in DOMAIN refreshCalls : ~refreshCalls[k].done}) <= 1
    /\ \A i \in DOMAIN usageGets :
           (usageGets[i].pc = "done" /\ usageGets[i].joined # 0) =>
               /\ refreshCalls[usageGets[i].joined].done
               /\ usageGets[i].answer = refreshCalls[usageGets[i].joined].result

\* the first half of C24 alone
C24_AtMostOneRefresh ==
    Cardinality({k \in DOMAIN refreshCalls : ~refreshCalls[k].done}) <= 1

----------------------------------------------------------------------------
(* Properties of the upstream fetch helpers (SpecFetch) *)

\* C25: every upstream fetch helper that was called returns, whatever statuses
\* the upstream answers with (429 on every request included)
C25_HelpersReturn ==
    \A h \in Helpers : (helperCalls[h].pc = "fetch") ~> (helperCalls[h].pc = "returned")

\* the two helpers of the Cursor API return
C25_CursorHelpersReturn ==
    \A h \in Helpers \ {"fetchAnthropicUsage"} :
        (helperCalls[h].pc = "fetch") ~> (helperCalls[h].pc = "returned")

----------------------------------------------------------------------------
(* Properties of the flowkeeper store under concurrent requests (SpecRace) *)

\* how often a completion is in a list
Count(c, list) == Cardinality({i \in DOMAIN list : list[i] = c})

\* C26: however the write back of GET /api/flowkeeper interleaves with an
\* append, no step removes a stored completion that is younger than 7 days:
\* whatever a step removes from the store is expired
C26_PruningIsSafeToRace ==
    [][ \A i \in DOMAIN completionsStore :
            flowNow - completionsStore[i].completedAt < SEVEN_DAYS =>
                Count(completionsStore[i], completionsStore')
                    >= Count(completionsStore[i], completionsStore) ]_vars

----------------------------------------------------------------------------
(* Properties of the animator and the poll, tick by tick (SpecCounter) *)

\* the step is an animation frame
IsTick == clock' > clock

\* the token gap the frame starts with, in 1/Q tokens
TokenGap == targetTokensRef * Q - displayedTokensRef

\* a poll has left the target more than the normal zone above the start
\* position it recorded, and no re-anchoring has moved the start position since
BumpPending == targetTokensRef * Q - tokenStartRef > NORMAL_ZONE * Q

\* C27: the re-anchoring runs for every poll-driven bump: the first tick that
\* advances the tokens in the normal zone after such a bump resets the
\* accumulator's start positions (token start at the displayed value, line start
\* at the target minus the remaining tokens at the visual rate)
C27_TransitionOncePerBump ==
    [][ ( /\ IsTick
          /\ BumpPending
          /\ TokenGap > 0 /\ TokenGap <= NORMAL_ZONE * Q
          /\ displayedTokensRef' > displayedTokensRef ) =>
            /\ tokenStartRef' = displayedTokensRef
            /\ linesStartRef' = targetLinesRef * Q - VisualLinesQ(TokenGap) ]_vars

\* C28: a poll changes neither the displayed values, nor the floors, nor the
\* accumulator, nor the sequence index; a tick changes neither target
C28_PollWritesOnlyTargets ==
    [][ /\ polls' # polls =>
              UNCHANGED <<displayedTokensRef, displayedLinesRef, displayedTokens,
                          displayedLines, floorTokensRef, floorLinesRef,
                          lineTokenAccumRef, lineSeqIndexRef>>
        /\ IsTick => UNCHANGED <<targetTokensRef, targetLinesRef>> ]_vars

\* C29: no tick lowers displayedTokensRef or displayedLinesRef
C29_RawValuesNeverDecrease ==
    [][ IsTick => /\ displayedTokensRef' >= displayedTokensRef
                  /\ displayedLinesRef' >= displayedLinesRef ]_vars

\* ms since the previous frame, for a step that is a tick
DeltaMs == IF lastFrameTimeRef = 0 THEN 0 ELSE clock' - lastFrameTimeRef

\* C30: a tick that starts with a token gap above 500,000 is not skipped as a
\* pause: it leaves the pause flag cleared and, when time has passed since the
\* previous frame, it raises displayedTokensRef; and a tick leaves the pause
\* flag set only if it started with a positive target and a gap of at most 500,000
C30_NoPauseInCatchUp ==
    [][ IsTick =>
          /\ TokenGap > NORMAL_ZONE * Q =>
                 /\ isPausedRef' = FALSE
                 /\ DeltaMs > 0 => displayedTokensRef' > displayedTokensRef
          /\ isPausedRef' => (targetTokensRef > 0 /\ TokenGap <= NORMAL_ZONE * Q) ]_vars

\* a pause was begun in the normal zone, a poll then raised the target by more
\* than the normal zone, and a tick before the end of the pause has cleared the
\* flag and advanced the tokens
C30_Witness ==
    /\ ~isPausedRef
    /\ pauseEndRef > clock
    /\ BumpPending
    /\ displayedTokensRef > tokenStartRef

----------------------------------------------------------------------------
(* Properties of the line pacing (SpecCounter) *)

\* the cost of the sequence entry at an index, in 1/Q tokens
CostAt(idx) == LINE_TOKEN_SEQ[(idx % SEQ_LEN) + 1] * LINE_COST_MULTIPLIER * Q

\* the cost of k entries in a row from an index
RECURSIVE CostOf(_, _)
CostOf(idx, k) == IF k <= 0 THEN 0 ELSE CostAt(idx) + CostOf(idx + 1, k - 1)

\* the accumulator and the raw lines a normal-zone tick paces from: the tick of
\* the catch-up -> normal transition first empties the one and re-anchors the other
AccumBefore == IF wasInCatchUpRef THEN 0 ELSE lineTokenAccumRef
LinesBefore ==
    IF wasInCatchUpRef
    THEN Min(displayedLinesRef, targetLinesRef * Q - VisualLinesQ(TokenGap))
    ELSE displayedLinesRef

\* the step is a tick that advances the tokens in the normal zone with the
\* lines below their target
PacedTick ==
    /\ IsTick
    /\ TokenGap > 0 /\ TokenGap <= NORMAL_ZONE * Q
    /\ displayedTokensRef' > displayedTokensRef
    /\ LinesBefore < targetLinesRef * Q

\* a paced tick that fed `inc` into the accumulator has added the largest
\* number k of lines whose sequence entries it could pay for in a row, short of
\* the line target, and has moved the sequence index by k
PacedBy(inc) ==
    LET k == lineSeqIndexRef' - lineSeqIndexRef
        total == AccumBefore + inc
    IN  /\ k >= 0
        /\ displayedLinesRef' = LinesBefore + k * Q
        /\ CostOf(lineSeqIndexRef, k) <= total
        /\ lineTokenAccumRef' = total - CostOf(lineSeqIndexRef, k)
        /\ k > 0 => LinesBefore + (k - 1) * Q < targetLinesRef * Q
        /\ \/ LinesBefore + k * Q >= targetLinesRef * Q
           \/ /\ CostAt(lineSeqIndexRef + k) # 0
              /\ CostOf(lineSeqIndexRef, k + 1) > total

\* C31 as stated: what a paced tick feeds into the accumulator is the advance
\* of the displayed tokens
C31_LinesPacedByAdvance ==
    /\ [](lineTokenAccumRef >= 0)
    /\ [][ PacedTick => PacedBy(displayedTokensRef' - displayedTokensRef) ]_vars

\* C31: the accumulator is never negative, and a paced tick feeds its token
\* increment (speed x elapsed time, before the advance is capped at the target)
\* into the accumulator and adds the largest number of lines the next sequence
\* entries allow, zero-cost entries always taken, stopping at the line target,
\* the sequence index moving by the number of lines added
C31_LinesPacedByIncrement ==
    /\ [](lineTokenAccumRef >= 0)
    /\ [][ PacedTick => PacedBy(NormalInc(TokenGap, DeltaMs, speedMultiplierRef')) ]_vars

\* lines have been paid for out of the accumulator, a remainder is carried, and
\* the tokens have arrived at their target
C31_Witness ==
    /\ ~wasInCatchUpRef
    /\ lineSeqIndexRef >= 2
    /\ lineTokenAccumRef > 0
    /\ displayedLinesRef < targetLinesRef * Q
    /\ targetTokensRef > 0 /\ displayedTokensRef = targetTokensRef * Q

----------------------------------------------------------------------------
(* Convergence of the animator (SpecPacing) *)

\* the least a tick of deltaMs advances the tokens, in 1/Q tokens: 500 tokens
\* per ms in catch-up, 0.1 x 0.3 tokens per ms in the normal zone
LeastAdvance(deltaMs) ==
    IF TokenGap > NORMAL_ZONE * Q THEN 500 * Q * deltaMs
                                  ELSE (30 * deltaMs * Q) \div 1000

\* C32: catch-up ends and the tokens arrive at the target, stated as what every
\* tick does while no poll interferes: a tick after a positive elapsed time that
\* starts below the target either closes the gap by at least the least advance
\* of that time (all of it, if the gap is smaller), or it is a frame of a pause
\* in the normal zone; a pause is begun only when it is due and ends less than
\* 5 s after it began, and the tick that ends one puts the next pause at least
\* 30 s ahead
C32_CatchUpConverges ==
    /\ [][ (IsTick /\ DeltaMs > 0 /\ TokenGap > 0) =>
             \/ TokenGap - TokenGap' >= Min(TokenGap, LeastAdvance(DeltaMs))
             \/ /\ TokenGap <= NORMAL_ZONE * Q
                /\ TokenGap' = TokenGap
                /\ isPausedRef'
                /\ clock' < pauseEndRef'
                /\ IF isPausedRef THEN pauseEndRef' = pauseEndRef
                                  ELSE /\ clock' >= nextPauseAtRef
                                       /\ pauseEndRef' < clock' + 5000 ]_vars
    /\ [][ (IsTick /\ isPausedRef /\ ~isPausedRef' /\ TokenGap <= NORMAL_ZONE * Q) =>
             nextPauseAtRef' >= clock' + 30000 ]_vars

\* after the only poll the tokens came from more than the normal zone below the
\* target and have arrived at it, and a pause has begun and ended
C32_Witness ==
    /\ polls = 1
    /\ BumpPending
    /\ displayedTokensRef = targetTokensRef * Q
    /\ ~isPausedRef
    /\ pauseEndRef > 0 /\ pauseEndRef <= clock

----------------------------------------------------------------------------
(* Properties of the edit operations and of edit mode (SpecSession) *)

\* the step is a call of one of the three operations on priorities
PriorityEdit ==
    \/ addPriority
    \/ \E id \in PriorityIds : updatePriority(id, [risk |-> 3]) \/ deletePriority(id)

\* the step is a call of one of the three operations on flow tasks
FlowEdit ==
    \/ addFlowTask
    \/ \E id \in FlowIds : updateFlowTask(id, [difficulty |-> 3]) \/ deleteFlowTask(id)

\* everything the page and the server hold
ProgramState == <<counterVars, flowVars, keeperVars, serverVars, clientVars, routeVars>>

\* C33: the six edit operations never change the canonical priorities or
\* flowTasks, and a call without an open draft changes nothing at all
C33_EditsTouchOnlyDraft ==
    [][ /\ (PriorityEdit \/ FlowEdit) => UNCHANGED <<priorities, flowTasks>>
        /\ (PriorityEdit /\ ~draftPriorities.editing) => UNCHANGED ProgramState
        /\ (FlowEdit /\ ~draftFlowTasks.editing) => UNCHANGED ProgramState ]_vars

\* a session has changed both drafts away from the lists of the page
C33_Witness ==
    /\ draftPriorities.editing /\ draftFlowTasks.editing
    /\ PublicView(draftPriorities.list) # PublicView(priorities)
    /\ draftFlowTasks.list # flowTasks


----------------------------------------------------------------------------
(* Properties of the labels and colours of the meter (SpecMeter) *)

\* C34: the label is 'Very Busy' exactly when the mood is busy and the load
\* percentage min(load / 50 * 100, 100) is above 50, that is 25 < load < 35;
\* otherwise it is the base label of the mood; the percentage is at most 100.
C34_VeryBusyLabel ==
    LET label == getMoodLabel(mood, loadPercent)
    IN  /\ label = "Very Busy" <=> (mood = "busy" /\ loadPercent > 500)
        /\ label = "Very Busy" <=> (250 < effectiveLoad /\ effectiveLoad < 350)
        /\ label # "Very Busy" =>
               label = (CASE mood = "calm" -> "Feeling Good"
                          [] mood = "busy" -> "Busy"
                          [] mood = "stress" -> "Under Pressure")
        /\ loadPercent <= 1000
        /\ loadPercent = IF effectiveLoad >= 500 THEN 1000 ELSE 2 * effectiveLoad

\* the fetched list weighs between 25 and 35 and is labelled 'Very Busy'
C34_Witness ==
    /\ response.route = "/api/priorities"
    /\ priorities # <<>>
    /\ mood = "busy"
    /\ effectiveLoad > 250
    /\ getMoodLabel(mood, loadPercent) = "Very Busy"

\* the tasks of the list that are coloured calm
CalmSegments == { k \in 1..Len(barSegments) : barSegments[k].segmentMood = "calm" }

\* C35: a segment is coloured by the weight of its own task: stress from 6,
\* busy from 3 and below 6, calm below 3; over the levels {1,2,3} a task is
\* calm iff no level is 3 and at most one is 2, whatever the mood of the list.
C35_SegmentColourByOwnWeight ==
    /\ Len(barSegments) = Len(activePriorities)
    /\ \A k \in 1..Len(barSegments) :
           LET w == barSegments[k].weight
               p == barSegments[k]
               threes == Cardinality({ a \in {"risk", "urgency", "importance"} : p[a] = 3 })
               twos == Cardinality({ a \in {"risk", "urgency", "importance"} : p[a] = 2 })
           IN  /\ w = DocW(p.risk) + DocW(p.urgency) + DocW(p.importance)
               /\ barSegments[k].segmentMood = "stress" <=> w >= 60
               /\ barSegments[k].segmentMood = "busy" <=> (30 <= w /\ w < 60)
               /\ barSegments[k].segmentMood = "calm" <=> w < 30
               /\ barSegments[k].segmentMood = "calm" <=> (threes = 0 /\ twos <= 1)
    /\ \A r \in Levels : \A u \in Levels : \A i \in Levels :
           segmentMood(calculateWeight([risk |-> r, urgency |-> u, importance |-> i])) = "calm"
               <=> (3 \notin {r, u, i} /\ Cardinality({ a \in 1..3 : <<r, u, i>>[a] = 2 }) <= 1)

\* the list is under pressure and yet shows a calm, a busy and a stress segment
C35_Witness ==
    /\ response.route = "/api/priorities"
    /\ mood = "stress"
    /\ CalmSegments # {}
    /\ \E k \in 1..Len(barSegments) : barSegments[k].segmentMood = "busy"
    /\ \E k \in 1..Len(barSegments) : barSegments[k].segmentMood = "stress"


----------------------------------------------------------------------------
(* Properties of the tag endpoint (SpecApi) *)

\* the handler has answered with the status and has written nothing, nor will it
AnsweredWithoutWrite(method, status) ==
    /\ response' = Reply("/api/tags", method, status, <<>>)
    /\ UNCHANGED <<prioritiesStore, tagsStore, flowTasksStore, tagRequests>>

\* C36: an authorized DELETE of a tag value that is not in the catalog is
\* answered 404 and writes nothing; an authorized POST without a value or
\* without a label is answered 400 and writes nothing.
C36_TagRequestsRejectedWithoutWrite ==
    [][ \A h \in Headers :
            Credential(h) =>
                /\ \A value \in ApiTagValues :
                       (DeleteTags(h, value) /\ ~TagExists(tagsStore, value))
                           => AnsweredWithoutWrite("DELETE", 404)
                /\ \A in \in ApiTagInputs :
                       (PostTags(h, in[1], in[2]) /\ (in[1] = "" \/ in[2] = ""))
                           => AnsweredWithoutWrite("POST", 400) ]_vars

\* a tag was deleted, and a later authorized DELETE was answered 404
C36_Witness ==
    /\ response = Reply("/api/tags", "DELETE", 404, <<>>)
    /\ EDIT_PASSWORD = "pw"
    /\ ~TagExists(tagsStore, "misc")
    /\ Len(tagsStore) = Len(DEFAULT_TAGS) - 1
    /\ tagRequests = <<>>


----------------------------------------------------------------------------
(* Lines follow tokens (SpecPacing) *)

\* C37: the lines advance, raw or shown, only in a tick in which the tokens
\* have a positive increment and advance; so in a tick that starts with the
\* tokens at their target the lines stay as they are, raw and shown, also
\* below the line target, and they stay so until a poll raises the token target.
C37_LinesAdvanceOnlyWithTokens ==
    /\ [][ (IsTick /\ (displayedLinesRef' > displayedLinesRef
                          \/ displayedLines' > displayedLines))
              => /\ TokenGap > 0 /\ DeltaMs > 0
                 /\ displayedTokensRef' > displayedTokensRef ]_vars
    /\ [][ (IsTick /\ TokenGap = 0)
              => UNCHANGED <<displayedLinesRef, displayedLines, lineTokenAccumRef,
                             lineSeqIndexRef>> ]_vars

\* the tokens are at their target, the lines are below theirs, and ticks have
\* gone by since the tokens arrived: the tick of arrival was within the save
\* interval of the latest save, and no later tick has saved
C37_Witness ==
    /\ targetTokensRef > 0 /\ TokenGap = 0
    /\ displayedLinesRef < targetLinesRef * Q
    /\ displayedLines < targetLinesRef
    /\ lastFrameTimeRef = clock
    /\ clock - lastSaveTimeRef > 2 * SAVE_INTERVAL_MS


----------------------------------------------------------------------------
(* Properties of the login (SpecLogin) *)

\* C38: edit mode and the drafts are in lockstep: in every state reached
\* through handleAuth, the edit operations, completeFlowTask and exitEditMode,
\* isAuthenticated is true iff draftPriorities is non-null iff draftFlowTasks
\* is non-null.
C38_DraftsInLockstep ==
    /\ isAuthenticated <=> draftPriorities.editing
    /\ isAuthenticated <=> draftFlowTasks.editing

\* a second session, opened after exitEditMode closed the first one and saved
\* the task added in it; in the second one a task was added and a flow task
\* completed
C38_Witness ==
    /\ isAuthenticated /\ draftPriorities.editing /\ draftFlowTasks.editing
    /\ Len(prioritiesStore) = 2
    /\ Len(draftPriorities.list) > Len(priorities)
    /\ flowCompletions # <<>>

\* C39: whenever the page is in edit mode the password of the page is the one
\* the auth endpoint accepted, so that the saves of exitEditMode carry the
\* verified credential, whatever the order of edits of the password field,
\* calls of handleAuth and their late answers, and exitEditMode.
C39_SessionHoldsVerifiedPassword ==
    /\ [](isAuthenticated => AuthStatus(password) = 200)
    /\ [][ (\E tasksWritten, flowWritten \in BOOLEAN : exitEditMode(tasksWritten, flowWritten))
              => MutationGate(Bearer(password)) = 200 ]_vars


----------------------------------------------------------------------------
(* Properties of the completion guard (SpecLogin, SpecSession) *)

\* a call of completeFlowTask for an id whose request is in flight
RepeatedCall == \E id \in FlowIds : id \in Completing /\ completeFlowTask(id)

\* no id has two local completions
CompletedOnce ==
    \A i \in DOMAIN completedIds : \A j \in DOMAIN completedIds :
        i # j => completedIds[i] # completedIds[j]

\* a repeated call changes nothing and sends nothing, and the answer to a
\* request, whatever its status, releases exactly the id of the request
GuardHolds ==
    [][ /\ RepeatedCall => UNCHANGED ProgramState
        /\ CompleteReturns =>
               /\ Cardinality(completingIdsRef') = Cardinality(completingIdsRef) - 1
               /\ completingIdsRef' \subseteq completingIdsRef
               /\ UNCHANGED <<flowCompletions, flowPercent, completedIds>> ]_vars

\* C40: completion is guarded against double submission: while the request
\* of completeFlowTask(id) is in flight, further calls for the id change
\* nothing and send nothing; the id is released whether the request succeeds
\* or fails; and no sequence of calls appends more than one local completion
\* for the same task.
C40_CompletionGuarded == GuardHolds /\ []CompletedOnce


====
